---- MODULE Spec2Model ----
(***************************************************************************)
(* Model of the debate orchestration engine of ai_debate:                  *)
(*   services/debate_engine.py  DebateEngine (conduct_debate and helpers)  *)
(*   services/ai_client.py      AIClient.call_ai                           *)
(*   io/file_manager.py         FileManager (transcript writer)            *)
(*                                                                         *)
(* Text is a sequence of one-character strings.  The Korean literals of    *)
(* the source are written in ASCII here:                                   *)
(*   "OPENING"          the round name  U+CD08 U+AE30 ' ' U+C8FC U+C7A5    *)
(*   "FINAL_CONSENSUS"  the round name  U+CD5C U+C885 ' ' U+D569 U+C758    *)
(*                      U+C548                                             *)
(*   "DEBATE k"         the round name  U+D1A0 U+B860 ' ' k                *)
(*   "JUN", "BI"        the two syllables U+C900 U+BE44 ("ready")          *)
(* and the keywords of _optimize_speaker_order syllable by syllable in     *)
(* romanised form ("BAN", "DAE" for U+BC18 U+B300, and so on).             *)
(* Python's None is the empty tuple <<>> and a present list v is <<v>>.    *)
(***************************************************************************)
EXTENDS Integers, Sequences, FiniteSets, TLC

VARIABLES
    num_participants,      \* len(debate_setup.stances)
    num_rounds,            \* debate_setup.num_rounds
    char_limit,            \* debate_setup.char_limit
    pc,                    \* position of conduct_debate
    i,                     \* loop index of "for i, round_info in enumerate(rounds)"
    actual_round_num,
    speaker_order,
    pos,                   \* 1-based position of the inner speaker loops
    conversation_history,
    last_ready_status,     \* <<>> is None, <<v>> is the list v
    ready_status,          \* the list built by _check_all_consensus_ready
    debate_file,           \* what FileManager has written to the transcript file
    current_round,         \* FileManager.current_round
    synth_log,             \* the final_proposals of every synthesize_conclusion call
    unified_conclusion,    \* <<>> is "not yet computed", <<text>> the result
    conclusion_file,       \* the save_conclusion_file calls made, and whether each wrote
    exc,                   \* the exception that left conduct_debate, or "none"
    check_rounds,          \* history: the round numbers after which a check was run
    ready_failed,          \* history: stance indices whose readiness call raised
    turn_failed,           \* history: transcript positions produced from a failed call
    faults,                \* number of non-nominal agent outcomes drawn so far
    raw_in,                \* input of the reply-parsing specification
    parsed,                \* its result
    synth_raw,             \* history: <<outcome>> of the synthesis agent call
    prompt_log,            \* history: the transcript rendered into each turn's prompt
    in_flight,             \* the agent call a KeyboardInterrupt cut short, or "none"
    asked,                 \* history: the stance indices the running check has asked
    check_prompts,         \* history: the turns shown by each prompt of the running check
    synth_calls,           \* history: the stance whose agent each synthesis call went to
    fn_in,                 \* input of the function-level specifications
    fn_out                 \* <<result>> once the function has been applied

vars == << num_participants, num_rounds, char_limit, pc, i, actual_round_num,
           speaker_order, pos, conversation_history, last_ready_status,
           ready_status, debate_file, current_round, synth_log,
           unified_conclusion, conclusion_file, exc, check_rounds,
           ready_failed, turn_failed, faults, raw_in, parsed, synth_raw,
           prompt_log, in_flight, asked, check_prompts, synth_calls,
           fn_in, fn_out >>

-----------------------------------------------------------------------------
(* Bounds of the model *)

\* Configurations: every (participants, rounds) with participants * rounds
\* at most MaxTurns, the longest transcript a scheduled debate can give.
MaxTurns == 13
\* Agent calls of one debate that fail or answer under the length floor.
MaxFaults == 1
\* Longest agent answer the reply-parsing specification enumerates.
MaxReplyLen == 3
\* The char_limit of the debates of Spec.
DebateCharLimit == 8
\* Most stances of a readiness vector handed to _determine_speaker_order.
MaxOrderLen == 5
\* Largest char_limit and longest agent answer the response-length
\* specification enumerates (next to the default budget's examples).
MaxBudget == 9
MaxRespLen == 4
\* Largest max_retries handed to call_ai_with_retry.
MaxRetries == 3
\* Most model keys in the cache file initialize_models reads.
MaxCachedKeys == 2
\* Longest line the operator types at a numeric prompt.
MaxInputLen == 3
\* Most stances handed to _optimize_speaker_order.
MaxStances == 3
\* Largest num_rounds handed to _create_rounds on its own.
MaxPlanRounds == 8

\* Configurations of the fair specification: participants * rounds
\* <= MaxLiveTurns.
MaxLiveTurns == 8
\* Configurations of the comparison with the single-file predecessor:
\* participants * rounds <= MaxLegacyTurns.
MaxLegacyTurns == 8

(* Program constants *)

MIN_PARTICIPANTS == 2
MAX_PARTICIPANTS == 10
MIN_ROUNDS == 2
min_rounds == 2
DEFAULT_CHAR_LIMIT == 500
DEFAULT_NUM_ROUNDS == 5
DEFAULT_NUM_PARTICIPANTS == 2

-----------------------------------------------------------------------------
(* Text helpers *)

NoneVal == << >>
Some(v) == << v >>

IsSpace(c) == c \in {" ", "\n"}

RECURSIVE LStrip(_)
LStrip(s) ==
    IF s = << >> THEN s
    ELSE IF IsSpace(Head(s)) THEN LStrip(Tail(s)) ELSE s

RECURSIVE RStrip(_)
RStrip(s) ==
    IF s = << >> THEN s
    ELSE IF IsSpace(s[Len(s)]) THEN RStrip(SubSeq(s, 1, Len(s) - 1)) ELSE s

Strip(s) == RStrip(LStrip(s))

UpperChar(c) ==
    CASE c = "y" -> "Y"
      [] c = "e" -> "E"
      [] c = "s" -> "S"
      [] c = "n" -> "N"
      [] c = "o" -> "O"
      [] c = "a" -> "A"
      [] OTHER -> c

Upper(s) == [k \in 1..Len(s) |-> UpperChar(s[k])]

Contains(hay, needle) ==
    \E k \in 0..(Len(hay) - Len(needle)) :
        SubSeq(hay, k + 1, k + Len(needle)) = needle

YES == << "Y", "E", "S" >>
JUNBI == << "JUN", "BI" >>

ERROR_RESPONSE == << "r", "e", "s", "p", "o", "n", "s", "e", " ", "e", "r", "r", "o", "r" >>
ERROR_CONCLUSION == << "s", "y", "n", "t", "h", "e", "s", "i", "s", " ", "e", "r", "r", "o", "r" >>

-----------------------------------------------------------------------------
(* AIClient.call_ai: the outcome of subprocess.run turned into a response  *)
(* or an exception.                                                        *)

FileNotFound == [kind |-> "FileNotFoundError", returncode |-> 0, stdout |-> << >>]
TimeoutExpired == [kind |-> "TimeoutExpired", returncode |-> 0, stdout |-> << >>]
Completed(rc, out) == [kind |-> "completed", returncode |-> rc, stdout |-> out]

(* Ctrl-C while subprocess.run waits for the agent. *)
Interrupted == [kind |-> "KeyboardInterrupt", returncode |-> 0, stdout |-> << >>]

(* Mutant of IsException: "except AIResponseError" in place of "except     *)
(* Exception"; AIModelNotFoundError is no subclass of AIResponseError.     *)
IsAIResponseError(e) == e \in {"AITimeoutError", "AIResponseError"}

(* The exception classes "except Exception" catches (exceptions.py);       *)
(* KeyboardInterrupt derives from BaseException and is not among them.     *)
IsException(e) ==
    e \in {"AIModelNotFoundError", "AITimeoutError", "AIResponseError",
           "FileOperationError"}

(* Mutant of CallAi: the test for an empty answer is left out, the         *)
(* stripped output is returned as it is.                                   *)
CallAiReturningEmpty(raw) ==
    CASE raw.kind = "KeyboardInterrupt" ->
            [ok |-> FALSE, exc |-> "KeyboardInterrupt", response |-> << >>]
      [] raw.kind = "FileNotFoundError" ->
            [ok |-> FALSE, exc |-> "AIModelNotFoundError", response |-> << >>]
      [] raw.kind = "TimeoutExpired" ->
            [ok |-> FALSE, exc |-> "AITimeoutError", response |-> << >>]
      [] raw.kind = "completed" /\ raw.returncode # 0 ->
            [ok |-> FALSE, exc |-> "AIResponseError", response |-> << >>]
      [] OTHER ->
            [ok |-> TRUE, exc |-> "none", response |-> Strip(raw.stdout)]

(* AIClient.call_ai, given what subprocess.run did. *)
CallAi(raw) ==
    CASE raw.kind = "KeyboardInterrupt" ->
            [ok |-> FALSE,
             exc |-> IF IsException("KeyboardInterrupt") THEN "AIResponseError"
                     ELSE "KeyboardInterrupt",
             response |-> << >>]
      [] raw.kind = "FileNotFoundError" ->
            [ok |-> FALSE, exc |-> "AIModelNotFoundError", response |-> << >>]
      [] raw.kind = "TimeoutExpired" ->
            [ok |-> FALSE, exc |-> "AITimeoutError", response |-> << >>]
      [] raw.kind = "completed" /\ raw.returncode # 0 ->
            [ok |-> FALSE, exc |-> "AIResponseError", response |-> << >>]
      [] raw.kind = "completed" /\ raw.returncode = 0 /\ Strip(raw.stdout) = << >> ->
            [ok |-> FALSE, exc |-> "AIResponseError", response |-> << >>]
      [] OTHER ->
            [ok |-> TRUE, exc |-> "none", response |-> Strip(raw.stdout)]

(* Mutant of CaughtForRetry: the missing binary is retried as well. *)
CaughtForRetryAny(e) ==
    e \in {"AITimeoutError", "AIResponseError", "AIModelNotFoundError"}

(* What the clauses "except AITimeoutError" and "except AIResponseError"   *)
(* of call_ai_with_retry catch.                                            *)
CaughtForRetry(e) == e \in {"AITimeoutError", "AIResponseError"}

RECURSIVE RetryFrom(_, _, _)
(* The loop "for attempt in range(limit)" of call_ai_with_retry from       *)
(* iteration attempt on; raws[k] is the outcome of the k-th agent call.    *)
(* AITimeoutError and AIResponseError go on to the next iteration,         *)
(* AIModelNotFoundError and whatever is not caught leave the function, and *)
(* the exhausted loop raises AIResponseError.                              *)
RetryFrom(raws, limit, attempt) ==
    IF attempt >= limit
    THEN [ok |-> FALSE, exc |-> "AIResponseError", response |-> << >>,
          calls |-> attempt]
    ELSE LET r == CallAi(raws[attempt + 1])
         IN  IF r.ok
             THEN [ok |-> TRUE, exc |-> "none", response |-> r.response,
                   calls |-> attempt + 1]
             ELSE IF CaughtForRetry(r.exc)
                  THEN RetryFrom(raws, limit, attempt + 1)
                  ELSE [ok |-> FALSE, exc |-> r.exc, response |-> << >>,
                        calls |-> attempt + 1]

(* Mutant of CallAiWithRetry: the exhausted loop raises the last attempt's *)
(* exception again.                                                        *)
CallAiWithRetryLastError(raws, max_retries) ==
    LET res == RetryFrom(raws, max_retries, 0)
    IN  IF ~res.ok /\ res.calls >= 1 /\ res.calls = max_retries
        THEN [res EXCEPT !.exc = CallAi(raws[max_retries]).exc]
        ELSE res

(* Mutant of CallAiWithRetry: the loop runs once more than max_retries. *)
CallAiWithRetryOneMore(raws, max_retries) == RetryFrom(raws, max_retries + 1, 0)

(* AIClient.call_ai_with_retry *)
CallAiWithRetry(raws, max_retries) == RetryFrom(raws, max_retries, 0)

-----------------------------------------------------------------------------
(* DebateEngine: the pure parts *)

MIN_CHAR_RATIO_PERCENT == 25

(* min_limit = int(char_limit * MIN_CHAR_RATIO) *)
MinLimit(L) == (L * MIN_CHAR_RATIO_PERCENT) \div 100

(* Mutant of GenerateDebatePrompt: the speaker's own turns are left out. *)
GenerateDebatePromptOthersOnly(speaker_idx, history) ==
    LET others == SelectSeq(history, LAMBDA msg : msg.speaker_idx # speaker_idx)
    IN  [k \in 1..Len(others) |->
            [label |-> ToString(others[k].speaker_idx),
             content |-> others[k].content]]

(* PromptGenerator.generate_debate_prompt, the part built from the history *)
(* argument: one labelled entry per message, in order; the speaker's own   *)
(* messages carry the label "me", the others the stance of their speaker. *)
GenerateDebatePrompt(speaker_idx, history) ==
    [k \in 1..Len(history) |->
        [label |-> IF history[k].speaker_idx = speaker_idx THEN "me"
                   ELSE ToString(history[k].speaker_idx),
         content |-> history[k].content]]

(* The "except Exception" handler of get_ai_response. *)
OnResponseError(e, n) ==
    IF IsException(e)
    THEN [response |-> ERROR_RESPONSE, calls |-> n, failed |-> TRUE, raised |-> "none"]
    ELSE [response |-> << >>, calls |-> n, failed |-> TRUE, raised |-> e]

(* Mutant of GetAiResponse: the expansion is asked for again while the     *)
(* answer is under the floor (the environment repeats raw2).               *)
GetAiResponseUntilLongEnough(L, raw1, raw2) ==
    LET r1 == CallAi(raw1)
    IN  IF ~r1.ok THEN OnResponseError(r1.exc, 1)
        ELSE IF Len(r1.response) < MinLimit(L)
             THEN LET r2 == CallAi(raw2)
                  IN  IF ~r2.ok THEN OnResponseError(r2.exc, 2)
                      ELSE [response |-> r2.response,
                            calls |-> IF Len(r2.response) < MinLimit(L) THEN 3 ELSE 2,
                            failed |-> FALSE, raised |-> "none"]
             ELSE [response |-> r1.response, calls |-> 1,
                   failed |-> FALSE, raised |-> "none"]

(* Mutant of GetAiResponse: when the expansion call fails the short first  *)
(* answer is kept.                                                         *)
GetAiResponseKeepingShort(L, raw1, raw2) ==
    LET r1 == CallAi(raw1)
    IN  IF ~r1.ok THEN OnResponseError(r1.exc, 1)
        ELSE IF Len(r1.response) < MinLimit(L)
             THEN LET r2 == CallAi(raw2)
                  IN  [response |-> IF r2.ok THEN r2.response ELSE r1.response,
                       calls |-> 2, failed |-> ~r2.ok, raised |-> "none"]
             ELSE [response |-> r1.response, calls |-> 1,
                   failed |-> FALSE, raised |-> "none"]

(* Mutant of GetAiResponse: an answer over the budget is cut to the budget. *)
GetAiResponseTruncating(L, raw1, raw2) ==
    LET r1 == CallAi(raw1)
    IN  IF ~r1.ok THEN OnResponseError(r1.exc, 1)
        ELSE IF Len(r1.response) < MinLimit(L)
             THEN LET r2 == CallAi(raw2)
                  IN  IF ~r2.ok THEN OnResponseError(r2.exc, 2)
                      ELSE [response |-> r2.response, calls |-> 2,
                            failed |-> FALSE, raised |-> "none"]
             ELSE [response |-> SubSeq(r1.response, 1, L), calls |-> 1,
                   failed |-> FALSE, raised |-> "none"]

(* get_ai_response: raw1 is the outcome of the first agent call, raw2 the *)
(* outcome of the expansion call, which is made only for a short answer.  *)
GetAiResponse(L, raw1, raw2) ==
    LET r1 == CallAi(raw1)
    IN  IF ~r1.ok THEN OnResponseError(r1.exc, 1)
        ELSE IF Len(r1.response) < MinLimit(L)
             THEN LET r2 == CallAi(raw2)
                  IN  IF ~r2.ok THEN OnResponseError(r2.exc, 2)
                      ELSE [response |-> r2.response, calls |-> 2,
                            failed |-> FALSE, raised |-> "none"]
             ELSE [response |-> r1.response, calls |-> 1,
                   failed |-> FALSE, raised |-> "none"]

(* Whether get_ai_response makes the expansion call. *)
NeedsExpansion(L, raw1) ==
    LET r1 == CallAi(raw1) IN r1.ok /\ Len(r1.response) < MinLimit(L)

(* The length message contents are cut to in the readiness prompt. *)
PREVIEW_LEN == 200

(* Mutant of RecentMessages: the whole transcript is the recent part. *)
RecentMessagesAll(history, n) == history

(* generate_consensus_check_prompt, line 141: the last n messages of the   *)
(* transcript, or all of it while it is shorter than n.                    *)
RecentMessages(history, n) ==
    IF Len(history) >= n
    THEN SubSeq(history, Len(history) - n + 1, Len(history))
    ELSE history

(* generate_consensus_check_prompt, lines 143-147: the recent messages of  *)
(* the other speakers, in transcript order, each content cut to its first  *)
(* PREVIEW_LEN characters.                                                 *)
GenerateConsensusCheckPrompt(speaker_idx, history, n) ==
    LET others == SelectSeq(RecentMessages(history, n),
                            LAMBDA msg : msg.speaker_idx # speaker_idx)
        cut(text) == IF Len(text) > PREVIEW_LEN
                     THEN SubSeq(text, 1, PREVIEW_LEN) ELSE text
    IN  [k \in 1..Len(others) |->
            [others[k] EXCEPT !.content = cut(others[k].content)]]

(* Mutant of OnConsensusError: a failed readiness call counts as ready. *)
OnConsensusErrorReady(e) == TRUE

(* The "except Exception" handler of check_consensus_ready. *)
OnConsensusError(e) == FALSE

(* check_consensus_ready, given the outcome of its agent call. *)
CheckConsensusReady(raw) ==
    LET r == CallAi(raw)
    IN  IF r.ok
        THEN Contains(Upper(Strip(r.response)), YES) \/ Contains(r.response, JUNBI)
        ELSE OnConsensusError(r.exc)

(* Mutant of AllAsked: the loop stops at the first stance that is not ready. *)
AllAskedOrNotReady(status, n) ==
    Len(status) >= n \/ (status # << >> /\ ~status[Len(status)])

(* The end of "for i, stance in enumerate(debate_setup.stances)" in        *)
(* _check_all_consensus_ready: every stance has been asked.                *)
AllAsked(status, n) == Len(status) >= n

(* Mutant of KeptReadyStatus: a stance once not ready stays not ready. *)
KeptReadyStatusCompounding(last, status) ==
    IF last = NoneVal THEN Some(status)
    ELSE Some([k \in 1..Len(status) |-> last[1][k] /\ status[k]])

(* "last_ready_status = ready_status" (line 173) *)
KeptReadyStatus(last, status) == Some(status)

(* all(ready_status) *)
AllReady(status) == \A k \in 1..Len(status) : status[k]

(* Mutant of RoundName: a schedule of two rounds has no opening round. *)
RoundNameOpeningFromThree(k, n) ==
    IF k = 0 /\ n >= 3 THEN "OPENING"
    ELSE IF k = n - 1 THEN "FINAL_CONSENSUS"
    ELSE "DEBATE " \o ToString(k)

(* Mutant of RoundName: the closing round is looked for one index too far. *)
RoundNameOffByOne(k, n) ==
    IF k = 0 /\ n >= 2 THEN "OPENING"
    ELSE IF k = n THEN "FINAL_CONSENSUS"
    ELSE "DEBATE " \o ToString(k)

RoundName(k, n) ==
    IF k = 0 /\ n >= 2 THEN "OPENING"
    ELSE IF k = n - 1 THEN "FINAL_CONSENSUS"
    ELSE "DEBATE " \o ToString(k)

RoundInstruction(k, n, L) ==
    IF k = 0 /\ n >= 2 THEN [text |-> "state core claims", char_limit |-> L]
    ELSE IF k = n - 1 THEN [text |-> "propose final consensus", char_limit |-> L]
    ELSE [text |-> "rebut and seek common ground", char_limit |-> L]

(* Mutant of CreateRounds: the loop runs once more than num_rounds. *)
CreateRoundsOneMore(n, L) ==
    [k1 \in 1..(n + 1) |-> [name |-> RoundName(k1 - 1, n),
                            instruction |-> RoundInstruction(k1 - 1, n, L)]]

(* _create_rounds: element k+1 of the result is the source's rounds[k]. *)
CreateRounds(n, L) ==
    [k1 \in 1..n |-> [name |-> RoundName(k1 - 1, n),
                      instruction |-> RoundInstruction(k1 - 1, n, L)]]

(* final_round_info of the early closing round *)
FinalRoundInfo(L) ==
    [name |-> "FINAL_CONSENSUS",
     instruction |-> [text |-> "propose final consensus", char_limit |-> L]]

RECURSIVE SelectIdx(_, _, _)
(* [idx for idx, ready in enumerate(status) if ready = want], from index k *)
SelectIdx(status, want, k) ==
    IF k >= Len(status) THEN << >>
    ELSE IF status[k + 1] = want
         THEN << k >> \o SelectIdx(status, want, k + 1)
         ELSE SelectIdx(status, want, k + 1)

(* Mutant of DetermineSpeakerOrder: the ready stances are left out. *)
DetermineSpeakerOrderNotReadyOnly(n, last) ==
    IF last # NoneVal
    THEN SelectIdx(last[1], FALSE, 0)
    ELSE [k \in 1..n |-> k - 1]

(* Mutant of DetermineSpeakerOrder: the ready stances follow every stance. *)
DetermineSpeakerOrderRepeating(n, last) ==
    IF last # NoneVal
    THEN SelectIdx(last[1], FALSE, 0) \o [k \in 1..n |-> k - 1]
    ELSE [k \in 1..n |-> k - 1]

(* Mutant of DetermineSpeakerOrder: without a vector the order is reversed. *)
DetermineSpeakerOrderDescending(n, last) ==
    IF last # NoneVal
    THEN SelectIdx(last[1], FALSE, 0) \o SelectIdx(last[1], TRUE, 0)
    ELSE [k \in 1..n |-> n - k]

(* Mutant of DetermineSpeakerOrder: the ready stances speak first. *)
DetermineSpeakerOrderReadyFirst(n, last) ==
    IF last # NoneVal
    THEN SelectIdx(last[1], TRUE, 0) \o SelectIdx(last[1], FALSE, 0)
    ELSE [k \in 1..n |-> k - 1]

(* _determine_speaker_order *)
DetermineSpeakerOrder(n, last) ==
    IF last # NoneVal
    THEN SelectIdx(last[1], FALSE, 0) \o SelectIdx(last[1], TRUE, 0)
    ELSE [k \in 1..n |-> k - 1]

(* "if round_info['name'] == FINAL_CONSENSUS: break" *)
IsFinalRound(round_info) == round_info.name = "FINAL_CONSENSUS"

(* Mutant of ShouldCheckConsensus: the minimum-rounds test is dropped. *)
ShouldCheckConsensusAnyRound(arn, idx, nrounds) == idx < nrounds - 1

(* "if actual_round_num >= min_rounds and i < len(rounds) - 1" *)
ShouldCheckConsensus(arn, idx, nrounds) == arn >= min_rounds /\ idx < nrounds - 1

(* Mutant of FinalRound: the proposals are looked for one round too far. *)
FinalRoundOfNextRound(history, arn) ==
    SelectSeq(history, LAMBDA msg : msg.round = arn + 1)

(* Mutant of FinalRound: the whole transcript is handed over. *)
FinalRoundWholeTranscript(history, arn) == history

(* [msg for msg in conversation_history if msg['round'] == actual_round_num] *)
FinalRound(history, arn) == SelectSeq(history, LAMBDA msg : msg.round = arn)

(* Mutant of AppendToDebateFile: the turn is written inside the "new      *)
(* round" branch, so only the first turn of a round reaches the file.      *)
AppendToDebateFileOnNewRound(file, cur, speaker_idx, content, round_num, round_name) ==
    IF round_num # cur
    THEN Append(file, [header |-> TRUE, speaker_idx |-> speaker_idx,
                       content |-> content, round_num |-> round_num,
                       round_name |-> round_name])
    ELSE file

(* FileManager.append_to_debate_file, when the write succeeds: a round      *)
(* header precedes the first turn of a round.                               *)
AppendToDebateFile(file, cur, speaker_idx, content, round_num, round_name) ==
    Append(file, [header |-> (round_num # cur), speaker_idx |-> speaker_idx,
                  content |-> content, round_num |-> round_num,
                  round_name |-> round_name])

-----------------------------------------------------------------------------
(* The environment: what the agent subprocess and the file system answer.  *)

NominalTurn == Completed(0, << "a", "a", "\n" >>)
TurnOutcomes ==
    { NominalTurn, Completed(0, << "a" >>), Completed(0, << "\n" >>),
      Completed(1, << >>), FileNotFound, TimeoutExpired }

ReplyYes == Completed(0, << "Y", "E", "S", "\n" >>)
ReplyNo == Completed(0, << "N", "O", "\n" >>)
ReadyOutcomes ==
    { ReplyYes, ReplyNo, Completed(0, << >>), Completed(1, << >>),
      FileNotFound, TimeoutExpired }

SynthOutcomes == { NominalTurn, Completed(1, << >>), TimeoutExpired }

Cost(raw, nominal) == IF raw \in nominal THEN 0 ELSE 1

-----------------------------------------------------------------------------
(* DebateEngine.conduct_debate *)

DebateInit ==
    /\ num_participants \in MIN_PARTICIPANTS..MAX_PARTICIPANTS
    /\ num_rounds \in MIN_ROUNDS..MaxTurns
    /\ num_participants * num_rounds <= MaxTurns
    /\ char_limit = DebateCharLimit
    /\ pc = "init"
    /\ i = 0
    /\ actual_round_num = 0
    /\ speaker_order = << >>
    /\ pos = 0
    /\ conversation_history = << >>
    /\ last_ready_status = NoneVal
    /\ ready_status = << >>
    /\ debate_file = << >>
    /\ current_round = 0
    /\ synth_log = << >>
    /\ unified_conclusion = NoneVal
    /\ conclusion_file = << >>
    /\ exc = "none"
    /\ check_rounds = << >>
    /\ ready_failed = {}
    /\ turn_failed = {}
    /\ faults = 0
    /\ raw_in = FileNotFound
    /\ parsed = NoneVal
    /\ synth_raw = NoneVal
    /\ prompt_log = << >>
    /\ in_flight = "none"
    /\ asked = << >>
    /\ check_prompts = << >>
    /\ synth_calls = << >>
    /\ fn_in = NoneVal

Init == DebateInit /\ fn_out = NoneVal

config_vars == << num_participants, num_rounds, char_limit >>
parse_vars == << raw_in, parsed, in_flight, fn_in, fn_out >>

(* conduct_debate leaves with exception e. *)
Raise(e) ==
    /\ pc' = "aborted"
    /\ exc' = e

(* Lines 53-64: the transcript file is created, the locals are set. *)
InitializeDebateFile ==
    /\ pc = "init"
    /\ \E ok \in BOOLEAN :
        IF ok THEN pc' = "round" /\ exc' = exc
              ELSE Raise("FileOperationError")
    /\ UNCHANGED << config_vars, parse_vars, i, actual_round_num, speaker_order,
                    pos, conversation_history, last_ready_status, ready_status,
                    debate_file, current_round, synth_log, unified_conclusion,
                    conclusion_file, check_rounds, ready_failed, turn_failed,
                    faults, synth_raw, prompt_log,
                    asked, check_prompts, synth_calls >>

(* Lines 66-77: the head of one iteration of the round loop, or the loop's *)
(* normal exit.                                                            *)
BeginRound ==
    /\ pc = "round"
    /\ IF i < Len(CreateRounds(num_rounds, char_limit))
       THEN /\ actual_round_num' = i + 1
            /\ speaker_order' = DetermineSpeakerOrder(num_participants, last_ready_status)
            /\ pos' = 1
            /\ pc' = "turn"
       ELSE /\ pc' = "synth"
            /\ UNCHANGED << actual_round_num, speaker_order, pos >>
    /\ UNCHANGED << config_vars, parse_vars, i, conversation_history,
                    last_ready_status, ready_status, debate_file, current_round,
                    synth_log, unified_conclusion, conclusion_file, exc,
                    check_rounds, ready_failed, turn_failed, faults, synth_raw,
                    prompt_log,
                    asked, check_prompts, synth_calls >>

(* Lines 115-120: what follows the last speaker of a scheduled round. *)
AfterRound(round_info) ==
    IF IsFinalRound(round_info) THEN "synth"
    ELSE IF ShouldCheckConsensus(actual_round_num, i, Len(CreateRounds(num_rounds, char_limit)))
         THEN "check"
         ELSE "next"

(* One turn: get_ai_response, the append to conversation_history and the   *)
(* append to the transcript file.  round_num and round_info are those of   *)
(* the loop the turn belongs to; after is the control point that follows   *)
(* the turn when nothing raises.                                           *)
ProduceTurn(speaker_idx, round_num, round_info, after) ==
    \E raw1 \in TurnOutcomes, raw2 \in TurnOutcomes, write_ok \in BOOLEAN :
        LET res == GetAiResponse(char_limit, raw1, raw2)
            cost == Cost(raw1, {NominalTurn})
                    + (IF NeedsExpansion(char_limit, raw1)
                       THEN Cost(raw2, {NominalTurn}) ELSE 0)
            turn == [speaker_idx |-> speaker_idx, content |-> res.response,
                     round |-> round_num]
        IN  /\ NeedsExpansion(char_limit, raw1) \/ raw2 = NominalTurn
            /\ faults + cost <= MaxFaults
            /\ faults' = faults + cost
            /\ prompt_log' = Append(prompt_log,
                   GenerateDebatePrompt(speaker_idx, conversation_history))
            /\ IF res.raised # "none"
               THEN /\ Raise(res.raised)
                    /\ UNCHANGED << conversation_history, turn_failed,
                                    debate_file, current_round >>
               ELSE /\ conversation_history' = Append(conversation_history, turn)
                    /\ turn_failed' = IF res.failed
                                      THEN turn_failed \cup {Len(conversation_history) + 1}
                                      ELSE turn_failed
                    /\ IF write_ok
                       THEN /\ debate_file' = AppendToDebateFile(debate_file,
                                   current_round, speaker_idx, res.response,
                                   round_num, round_info.name)
                            /\ current_round' = round_num
                            /\ pc' = after
                            /\ exc' = exc
                       ELSE /\ Raise("FileOperationError")
                            /\ UNCHANGED << debate_file, current_round >>

(* Lines 80-113, one iteration, and lines 115-120 after the last one. *)
SpeakTurn ==
    /\ pc = "turn"
    /\ LET round_info == CreateRounds(num_rounds, char_limit)[i + 1]
           last == pos >= Len(speaker_order)
           after == IF ~last THEN "turn"
                    ELSE IF AfterRound(round_info) = "next" THEN "round"
                    ELSE AfterRound(round_info)
       IN  /\ ProduceTurn(speaker_order[pos], actual_round_num, round_info, after)
           /\ pos' = IF pc' = "turn" THEN pos + 1 ELSE pos
           /\ i' = IF pc' = "round" THEN i + 1 ELSE i
           /\ IF pc' = "check"
              THEN /\ ready_status' = << >>
                   /\ ready_failed' = {}
                   /\ asked' = << >>
                   /\ check_prompts' = << >>
                   /\ check_rounds' = Append(check_rounds, actual_round_num)
              ELSE UNCHANGED << ready_status, ready_failed, asked,
                                check_prompts, check_rounds >>
    /\ UNCHANGED << config_vars, parse_vars, actual_round_num, speaker_order,
                    last_ready_status, synth_log, unified_conclusion,
                    conclusion_file, synth_raw, synth_calls >>

(* Mutant of CheckLeavesAlone: a readiness call counts as a round. *)
CheckCountsAsRound ==
    /\ UNCHANGED << conversation_history, debate_file, current_round >>
    /\ actual_round_num' = actual_round_num + 1

(* _check_all_consensus_ready and check_consensus_ready (lines 262-291,    *)
(* 384-415) only read history, call no method of the file manager and      *)
(* have no access to conduct_debate's local actual_round_num.              *)
CheckLeavesAlone ==
    UNCHANGED << conversation_history, debate_file, current_round,
                 actual_round_num >>

(* Lines 404-410, one iteration of _check_all_consensus_ready (one call   *)
(* of check_consensus_ready); after the last one, lines 414-415 and the    *)
(* branch of lines 126-135 or 172-177.                                     *)
ConsensusCall ==
    /\ pc = "check"
    /\ \E raw \in ReadyOutcomes :
        LET idx == Len(ready_status)
            status == Append(ready_status, CheckConsensusReady(raw))
            cost == Cost(raw, {ReplyYes, ReplyNo})
        IN  /\ faults + cost <= MaxFaults
            /\ faults' = faults + cost
            /\ ready_status' = status
            /\ ready_failed' = IF CallAi(raw).ok THEN ready_failed
                               ELSE ready_failed \cup {idx}
            /\ asked' = Append(asked, idx)
            /\ check_prompts' = Append(check_prompts,
                   GenerateConsensusCheckPrompt(idx, conversation_history,
                                                num_participants))
            /\ IF ~AllAsked(status, num_participants)
               THEN /\ pc' = "check"
                    /\ UNCHANGED << last_ready_status, i, pos >>
               ELSE IF AllReady(status)
                    THEN /\ pc' = "final"
                         /\ pos' = 1
                         /\ UNCHANGED << last_ready_status, i >>
                    ELSE /\ last_ready_status' = KeptReadyStatus(last_ready_status, status)
                         /\ i' = i + 1
                         /\ pc' = "round"
                         /\ pos' = pos
    /\ CheckLeavesAlone
    /\ UNCHANGED << config_vars, parse_vars, speaker_order, synth_log,
                    unified_conclusion, conclusion_file, exc, check_rounds,
                    turn_failed, synth_raw, prompt_log, synth_calls >>

(* Mutant of EarlyRoundNum: the closing round leaves a round number out. *)
EarlyRoundNumSkipping(arn) == arn + 2

(* Mutant of EarlyRoundNum: the closing turns keep the trigger round's number. *)
EarlyRoundNumSame(arn) == arn

(* The round number the early closing round gives its turns (lines 158, 165). *)
EarlyRoundNum(arn) == arn + 1

(* Mutant of ClosingOrder: the closing round keeps the order of the round  *)
(* before it.                                                              *)
ClosingOrderOfLastRound(n) == speaker_order

(* Line 137: the early closing round iterates over range(num_participants). *)
ClosingOrder(n) == [k \in 1..n |-> k - 1]

(* Lines 137-168, one iteration of the early closing round; after the last *)
(* one, lines 170-171.                                                     *)
FinalTurn ==
    /\ pc = "final"
    /\ LET last == pos >= num_participants
       IN  /\ ProduceTurn(ClosingOrder(num_participants)[pos],
                          EarlyRoundNum(actual_round_num),
                          FinalRoundInfo(char_limit),
                          IF last THEN "synth" ELSE "final")
           /\ pos' = IF pc' = "final" THEN pos + 1 ELSE pos
           /\ actual_round_num' = IF pc' = "synth" THEN actual_round_num + 1
                                  ELSE actual_round_num
    /\ UNCHANGED << config_vars, parse_vars, i, speaker_order, last_ready_status,
                    ready_status, synth_log, unified_conclusion, conclusion_file,
                    check_rounds, ready_failed, synth_raw,
                    asked, check_prompts, synth_calls >>

(* Mutant of OnSynthesisError: the handler returns an empty conclusion. *)
OnSynthesisErrorEmpty(e) == << >>

(* The "except Exception" handler of synthesize_conclusion. *)
OnSynthesisError(e) == ERROR_CONCLUSION

(* Mutant of FirstModel: the agent of the last speaker of the last round. *)
LastSpeakerModel(n, final_proposals) ==
    final_proposals[Len(final_proposals)].speaker_idx

(* synthesize_conclusion, line 314: the agent the synthesis prompt goes    *)
(* to is that of debate_setup.stances[0], named here by its stance index;  *)
(* final_proposals plays no part in the choice.                            *)
FirstModel(n, final_proposals) == [k \in 1..n |-> k - 1][1]

(* synthesize_conclusion, given the outcome of its agent call. *)
SynthesizeConclusion(raw) ==
    LET r == CallAi(raw)
    IN  IF r.ok THEN r.response ELSE OnSynthesisError(r.exc)

(* Lines 180-181. *)
Synthesize ==
    /\ pc = "synth"
    /\ \E raw \in SynthOutcomes :
        /\ synth_log' = Append(synth_log, FinalRound(conversation_history, actual_round_num))
        /\ unified_conclusion' = Some(SynthesizeConclusion(raw))
        /\ synth_raw' = Some(raw)
    /\ synth_calls' = Append(synth_calls,
           FirstModel(num_participants,
                      FinalRound(conversation_history, actual_round_num)))
    /\ pc' = "save"
    /\ UNCHANGED << config_vars, parse_vars, i, actual_round_num, speaker_order,
                    pos, conversation_history, last_ready_status, ready_status,
                    debate_file, current_round, conclusion_file, exc,
                    check_rounds, ready_failed, turn_failed, faults, prompt_log,
                    asked, check_prompts >>

(* Lines 184-197: save_conclusion_file, then the return. *)
SaveConclusion ==
    /\ pc = "save"
    /\ LET final_round == FinalRound(conversation_history, actual_round_num)
           call(written) == [final_round_num |-> actual_round_num,
                             unified_conclusion |-> unified_conclusion[1],
                             proposals |-> final_round, written |-> written]
       IN  IF final_round = << >>
           THEN /\ conclusion_file' = Append(conclusion_file, call(FALSE))
                /\ pc' = "done"
                /\ exc' = exc
           ELSE \E write_ok \in BOOLEAN :
                   /\ conclusion_file' = Append(conclusion_file, call(write_ok))
                   /\ IF write_ok
                      THEN pc' = "done" /\ exc' = exc
                      ELSE Raise("FileOperationError")
    /\ UNCHANGED << config_vars, parse_vars, i, actual_round_num, speaker_order,
                    pos, conversation_history, last_ready_status, ready_status,
                    debate_file, current_round, synth_log, unified_conclusion,
                    check_rounds, ready_failed, turn_failed, faults, synth_raw,
                    prompt_log,
                    asked, check_prompts, synth_calls >>

Next ==
    \/ InitializeDebateFile
    \/ BeginRound
    \/ SpeakTurn
    \/ ConsensusCall
    \/ FinalTurn
    \/ Synthesize
    \/ SaveConclusion

Spec == Init /\ [][Next]_vars

(* conduct_debate is sequential code: each step it is at is taken once the *)
(* agent call or file operation it waits for has returned or failed, and   *)
(* call_ai bounds every agent call by a timeout.                           *)
LiveInit == Init /\ num_participants * num_rounds <= MaxLiveTurns

SpecLive == LiveInit /\ [][Next]_vars /\ WF_vars(Next)

-----------------------------------------------------------------------------
(* The operator's Ctrl-C during conduct_debate, and main()'s handlers.     *)
(* KeyboardInterrupt is raised in the main thread wherever it is when the  *)
(* signal arrives.                                                         *)

(* The speaker and the round number of the turn that is due. *)
DueSpeaker ==
    IF pc = "turn" THEN speaker_order[pos] ELSE ClosingOrder(num_participants)[pos]
DueRound == IF pc = "turn" THEN actual_round_num ELSE EarlyRoundNum(actual_round_num)

(* Ctrl-C while get_ai_response waits for the agent, in its first call or *)
(* in its expansion call.                                                  *)
InterruptTurn ==
    /\ pc \in {"turn", "final"}
    /\ \E raw1 \in TurnOutcomes \cup {Interrupted}, raw2 \in {Interrupted} :
        LET res == GetAiResponse(char_limit, raw1, raw2)
            cost == IF raw1 = Interrupted THEN 0 ELSE Cost(raw1, {NominalTurn})
        IN  /\ raw1 = Interrupted \/ NeedsExpansion(char_limit, raw1)
            /\ faults + cost <= MaxFaults
            /\ faults' = faults + cost
            /\ res.raised # "none"
            /\ Raise(res.raised)
            /\ in_flight' = "turn"
            /\ prompt_log' = Append(prompt_log,
                   GenerateDebatePrompt(DueSpeaker, conversation_history))
    /\ UNCHANGED << config_vars, i, actual_round_num, speaker_order, pos,
                    conversation_history, last_ready_status, ready_status,
                    debate_file, current_round, synth_log, unified_conclusion,
                    conclusion_file, check_rounds, ready_failed, turn_failed,
                    raw_in, parsed, synth_raw, fn_in, fn_out,
                    asked, check_prompts, synth_calls >>

(* Ctrl-C after conversation_history.append (line 98 or 152) and before    *)
(* append_to_debate_file has written the turn; its "except Exception"      *)
(* lets the KeyboardInterrupt pass.                                        *)
InterruptWrite ==
    /\ pc \in {"turn", "final"}
    /\ \E raw1 \in TurnOutcomes, raw2 \in TurnOutcomes :
        LET res == GetAiResponse(char_limit, raw1, raw2)
            cost == Cost(raw1, {NominalTurn})
                    + (IF NeedsExpansion(char_limit, raw1)
                       THEN Cost(raw2, {NominalTurn}) ELSE 0)
            turn == [speaker_idx |-> DueSpeaker, content |-> res.response,
                     round |-> DueRound]
        IN  /\ NeedsExpansion(char_limit, raw1) \/ raw2 = NominalTurn
            /\ faults + cost <= MaxFaults
            /\ faults' = faults + cost
            /\ res.raised = "none"
            /\ ~IsException("KeyboardInterrupt")
            /\ prompt_log' = Append(prompt_log,
                   GenerateDebatePrompt(DueSpeaker, conversation_history))
            /\ conversation_history' = Append(conversation_history, turn)
            /\ turn_failed' = IF res.failed
                              THEN turn_failed \cup {Len(conversation_history) + 1}
                              ELSE turn_failed
            /\ Raise("KeyboardInterrupt")
    /\ UNCHANGED << config_vars, parse_vars, i, actual_round_num, speaker_order,
                    pos, last_ready_status, ready_status, debate_file,
                    current_round, synth_log, unified_conclusion,
                    conclusion_file, check_rounds, ready_failed, synth_raw,
                    asked, check_prompts, synth_calls >>

(* Ctrl-C while check_consensus_ready or synthesize_conclusion waits for   *)
(* the agent; both handlers are "except Exception".                        *)
InterruptCall ==
    /\ pc \in {"check", "synth"}
    /\ ~CallAi(Interrupted).ok
    /\ ~IsException(CallAi(Interrupted).exc)
    /\ Raise(CallAi(Interrupted).exc)
    /\ in_flight' = IF pc = "check" THEN "readiness" ELSE "synthesis"
    /\ UNCHANGED << config_vars, i, actual_round_num, speaker_order, pos,
                    conversation_history, last_ready_status, ready_status,
                    debate_file, current_round, synth_log, unified_conclusion,
                    conclusion_file, check_rounds, ready_failed, turn_failed,
                    faults, raw_in, parsed, synth_raw, prompt_log, fn_in,
                    fn_out,
                    asked, check_prompts, synth_calls >>

(* Ctrl-C between two agent calls: during a time.sleep(1) or a print. *)
InterruptBetween ==
    /\ pc \in {"round", "turn", "check", "final", "synth", "save"}
    /\ Raise("KeyboardInterrupt")
    /\ UNCHANGED << config_vars, parse_vars, i, actual_round_num, speaker_order,
                    pos, conversation_history, last_ready_status, ready_status,
                    debate_file, current_round, synth_log, unified_conclusion,
                    conclusion_file, check_rounds, ready_failed, turn_failed,
                    faults, synth_raw, prompt_log,
                    asked, check_prompts, synth_calls >>

(* main(): the exit status after conduct_debate (main.py lines 103-118). *)
ExitCode(e) == IF e \in {"none", "KeyboardInterrupt"} THEN 0 ELSE 1

(* main() after conduct_debate returned or raised: a message is printed    *)
(* and the process exits; nothing is written.                              *)
MainExit ==
    /\ pc \in {"done", "aborted"}
    /\ pc' = "exit " \o ToString(ExitCode(exc))
    /\ UNCHANGED << config_vars, parse_vars, i, actual_round_num, speaker_order,
                    pos, conversation_history, last_ready_status, ready_status,
                    debate_file, current_round, synth_log, unified_conclusion,
                    conclusion_file, exc, check_rounds, ready_failed,
                    turn_failed, faults, synth_raw, prompt_log,
                    asked, check_prompts, synth_calls >>

InterruptNext ==
    \/ Next
    \/ InterruptTurn
    \/ InterruptWrite
    \/ InterruptCall
    \/ InterruptBetween
    \/ MainExit

SpecInterrupt == Init /\ [][InterruptNext]_vars

-----------------------------------------------------------------------------
(* check_consensus_ready as a function of the agent's answer: every answer *)
(* of at most MaxReplyLen characters over ReplyAlphabet, and every failure *)
(* of the call.                                                            *)

ReplyAlphabet == { "Y", "E", "S", "e", "N", " ", "JUN", "BI" }

Replies == UNION { [1..n -> ReplyAlphabet] : n \in 0..MaxReplyLen }

RawReplies ==
    { Completed(0, s) : s \in Replies }
        \cup { Completed(1, << >>), FileNotFound, TimeoutExpired }

ParseInit ==
    /\ num_participants = MIN_PARTICIPANTS
    /\ num_rounds = MIN_ROUNDS
    /\ char_limit = DebateCharLimit
    /\ pc = "check_consensus_ready"
    /\ i = 0
    /\ actual_round_num = 0
    /\ speaker_order = << >>
    /\ pos = 0
    /\ conversation_history = << >>
    /\ last_ready_status = NoneVal
    /\ ready_status = << >>
    /\ debate_file = << >>
    /\ current_round = 0
    /\ synth_log = << >>
    /\ unified_conclusion = NoneVal
    /\ conclusion_file = << >>
    /\ exc = "none"
    /\ check_rounds = << >>
    /\ ready_failed = {}
    /\ turn_failed = {}
    /\ faults = 0
    /\ raw_in \in RawReplies
    /\ parsed = NoneVal
    /\ synth_raw = NoneVal
    /\ prompt_log = << >>
    /\ in_flight = "none"
    /\ asked = << >>
    /\ check_prompts = << >>
    /\ synth_calls = << >>
    /\ fn_in = NoneVal
    /\ fn_out = NoneVal

(* One call of check_consensus_ready. *)
ParseReply ==
    /\ parsed = NoneVal
    /\ parsed' = Some(CheckConsensusReady(raw_in))
    /\ UNCHANGED << config_vars, pc, i, actual_round_num, speaker_order, pos,
                    conversation_history, last_ready_status, ready_status,
                    debate_file, current_round, synth_log, unified_conclusion,
                    conclusion_file, exc, check_rounds, ready_failed,
                    turn_failed, faults, raw_in, synth_raw, prompt_log,
                    in_flight, fn_in, fn_out,
                    asked, check_prompts, synth_calls >>

ParseNext == ParseReply

SpecParse == ParseInit /\ [][ParseNext]_vars

-----------------------------------------------------------------------------
(* The function-level specifications: a function of the engine is applied  *)
(* once to an input drawn from a bounded set; conduct_debate is not run.   *)

FunctionInit(label, inputs) ==
    /\ num_participants = MIN_PARTICIPANTS
    /\ num_rounds = MIN_ROUNDS
    /\ char_limit = DebateCharLimit
    /\ pc = label
    /\ i = 0
    /\ actual_round_num = 0
    /\ speaker_order = << >>
    /\ pos = 0
    /\ conversation_history = << >>
    /\ last_ready_status = NoneVal
    /\ ready_status = << >>
    /\ debate_file = << >>
    /\ current_round = 0
    /\ synth_log = << >>
    /\ unified_conclusion = NoneVal
    /\ conclusion_file = << >>
    /\ exc = "none"
    /\ check_rounds = << >>
    /\ ready_failed = {}
    /\ turn_failed = {}
    /\ faults = 0
    /\ raw_in = FileNotFound
    /\ parsed = NoneVal
    /\ synth_raw = NoneVal
    /\ prompt_log = << >>
    /\ in_flight = "none"
    /\ asked = << >>
    /\ check_prompts = << >>
    /\ synth_calls = << >>
    /\ fn_in \in inputs
    /\ fn_out = NoneVal

Apply(label, result) ==
    /\ pc = label
    /\ fn_out = NoneVal
    /\ fn_out' = Some(result)
    /\ UNCHANGED << config_vars, pc, i, actual_round_num, speaker_order, pos,
                    conversation_history, last_ready_status, ready_status,
                    debate_file, current_round, synth_log, unified_conclusion,
                    conclusion_file, exc, check_rounds, ready_failed,
                    turn_failed, faults, raw_in, parsed, synth_raw, prompt_log,
                    in_flight, fn_in,
                    asked, check_prompts, synth_calls >>

(* _determine_speaker_order on every readiness vector of at most           *)
(* MaxOrderLen stances, and on None.                                       *)

OrderInputs ==
    UNION { { [n |-> n, last |-> NoneVal] }
                \cup { [n |-> n, last |-> Some(v)] : v \in [1..n -> BOOLEAN] }
            : n \in 1..MaxOrderLen }

OrderInit == FunctionInit("_determine_speaker_order", OrderInputs)

OrderApply ==
    Apply("_determine_speaker_order", DetermineSpeakerOrder(fn_in.n, fn_in.last))

OrderNext == OrderApply

SpecOrder == OrderInit /\ [][OrderNext]_vars

(* get_ai_response as a function of char_limit and of the outcomes of its *)
(* first call and of its expansion call: every budget up to MaxBudget     *)
(* with every answer of at most MaxRespLen characters and every failure,   *)
(* and the default budget with answers of 80, 140 and 600 characters.      *)

Text(c, n) == [k \in 1..n |-> c]

AnswerOutcomes(c, lens) ==
    { Completed(0, Text(c, n)) : n \in lens }
        \cup { Completed(0, Text(c, 1) \o << "\n" >>),
               Completed(0, << " ", "\n" >>), Completed(1, << >>),
               FileNotFound, TimeoutExpired }

ResponseInputs ==
    { [L |-> L, raw1 |-> raw1, raw2 |-> raw2] :
        L \in 1..MaxBudget,
        raw1 \in AnswerOutcomes("a", 0..MaxRespLen),
        raw2 \in AnswerOutcomes("b", 0..MaxRespLen) }
    \cup
    { [L |-> DEFAULT_CHAR_LIMIT, raw1 |-> Completed(0, Text("a", n)), raw2 |-> raw2] :
        n \in {80, 140, 600},
        raw2 \in {Completed(0, Text("b", 80)), Completed(0, Text("b", 600)),
                  TimeoutExpired} }

ResponseInit == FunctionInit("get_ai_response", ResponseInputs)

ResponseApply ==
    Apply("get_ai_response", GetAiResponse(fn_in.L, fn_in.raw1, fn_in.raw2))

ResponseNext == ResponseApply

SpecResponse == ResponseInit /\ [][ResponseNext]_vars

(* call_ai_with_retry as a function of max_retries and of the outcomes of *)
(* the successive agent calls.                                             *)

RetryOutcomes ==
    { Completed(0, << "a" >>), Completed(0, << "b", "\n" >>), Completed(1, << >>),
      TimeoutExpired, FileNotFound }

RetryInputs ==
    { [max_retries |-> m, raws |-> raws] :
        m \in -1..MaxRetries, raws \in [1..(MaxRetries + 1) -> RetryOutcomes] }

RetryInit == FunctionInit("call_ai_with_retry", RetryInputs)

RetryApply ==
    Apply("call_ai_with_retry", CallAiWithRetry(fn_in.raws, fn_in.max_retries))

RetryNext == RetryApply

SpecRetry == RetryInit /\ [][RetryNext]_vars

-----------------------------------------------------------------------------
(* ModelManager.initialize_models *)

(* The keys of ALL_AI_MODELS. *)
ALL_AI_MODELS == { "claude", "openai", "gemini", "grok" }

(* The cache file: absent, not readable as a JSON object, an object        *)
(* without the key 'available_models', or an object holding a key list.    *)
NoCacheFile == [exists |-> FALSE, readable |-> FALSE, has_key |-> FALSE, keys |-> << >>]
BrokenCacheFile == [exists |-> TRUE, readable |-> FALSE, has_key |-> FALSE, keys |-> << >>]
EmptyCacheFile == [exists |-> TRUE, readable |-> TRUE, has_key |-> FALSE, keys |-> << >>]
CacheFileOf(keys) == [exists |-> TRUE, readable |-> TRUE, has_key |-> TRUE, keys |-> keys]

(* CacheManager.load_cached_models: None, or the stored list. *)
LoadCachedModels(cache) ==
    IF ~cache.exists THEN NoneVal
    ELSE IF ~cache.readable THEN NoneVal
    ELSE IF cache.has_key THEN Some(cache.keys) ELSE Some(<< >>)

RECURSIVE KeysIn(_)
(* The keys of the dict built from a list of cached keys (lines 120-124). *)
KeysIn(keys) ==
    IF keys = << >> THEN {}
    ELSE (IF Head(keys) \in ALL_AI_MODELS THEN {Head(keys)} ELSE {})
            \cup KeysIn(Tail(keys))

(* initialize_models: cache is the cache file, usable the set of models    *)
(* check_model_availability accepts, save_ok whether save_cached_models    *)
(* can write the cache file.                                               *)
InitializeModels(force_refresh, cache, usable, save_ok) ==
    LET cached_keys == LoadCachedModels(cache)
        from_cache == IF cached_keys = NoneVal THEN {} ELSE KeysIn(cached_keys[1])
        cache_hit == /\ ~force_refresh
                     /\ cached_keys # NoneVal
                     /\ cached_keys[1] # << >>
                     /\ from_cache # {}
    IN  IF cache_hit
        THEN [raised |-> "none", available_models |-> from_cache,
              probed |-> FALSE, saved |-> FALSE]
        ELSE IF usable = {}
             THEN [raised |-> "NoAvailableModelsError", available_models |-> {},
                   probed |-> TRUE, saved |-> FALSE]
             ELSE IF save_ok
                  THEN [raised |-> "none", available_models |-> usable,
                        probed |-> TRUE, saved |-> TRUE]
                  ELSE [raised |-> "FileOperationError", available_models |-> usable,
                        probed |-> TRUE, saved |-> FALSE]

CachedKeys == ALL_AI_MODELS \cup { "retired" }

ModelsInputs ==
    { [force_refresh |-> f, cache |-> c, usable |-> u, save_ok |-> w] :
        f \in BOOLEAN,
        c \in { NoCacheFile, BrokenCacheFile, EmptyCacheFile } \cup
              { CacheFileOf(keys) :
                  keys \in UNION { [1..n -> CachedKeys] : n \in 0..MaxCachedKeys } },
        u \in SUBSET ALL_AI_MODELS,
        w \in BOOLEAN }

ModelsInit == FunctionInit("initialize_models", ModelsInputs)

ModelsApply ==
    Apply("initialize_models",
          InitializeModels(fn_in.force_refresh, fn_in.cache, fn_in.usable, fn_in.save_ok))

ModelsNext == ModelsApply

SpecModels == ModelsInit /\ [][ModelsNext]_vars

-----------------------------------------------------------------------------
(* InputHandler: the numeric prompts *)

IsDigit(c) == c \in {"0", "1", "2", "3", "4", "5", "6", "7", "8", "9"}

DigitVal(c) ==
    CASE c = "0" -> 0 [] c = "1" -> 1 [] c = "2" -> 2 [] c = "3" -> 3
      [] c = "4" -> 4 [] c = "5" -> 5 [] c = "6" -> 6 [] c = "7" -> 7
      [] c = "8" -> 8 [] c = "9" -> 9

RECURSIVE DigitsVal(_)
DigitsVal(ds) ==
    IF ds = << >> THEN 0
    ELSE 10 * DigitsVal(SubSeq(ds, 1, Len(ds) - 1)) + DigitVal(ds[Len(ds)])

(* Python's int(text): surrounding whitespace is dropped, one sign may     *)
(* lead, decimal digits must follow; <<>> stands for ValueError.           *)
ParseInt(text) ==
    LET t == Strip(text)
        signed == t # << >> /\ Head(t) \in {"+", "-"}
        ds == IF signed THEN Tail(t) ELSE t
    IN  IF ds = << >> \/ \E k \in 1..Len(ds) : ~IsDigit(ds[k])
        THEN NoneVal
        ELSE Some(IF signed /\ Head(t) = "-" THEN 0 - DigitsVal(ds) ELSE DigitsVal(ds))

(* Mutant of GetNumParticipants: a number over the maximum is returned as it is. *)
GetNumParticipantsNoMax(line) ==
    LET input_str == Strip(line)
        num == ParseInt(input_str)
    IN  IF input_str = << >> THEN DEFAULT_NUM_PARTICIPANTS
        ELSE IF num = NoneVal THEN DEFAULT_NUM_PARTICIPANTS
        ELSE IF num[1] < MIN_PARTICIPANTS THEN DEFAULT_NUM_PARTICIPANTS
        ELSE num[1]

(* get_num_participants, given the line the operator types. *)
GetNumParticipants(line) ==
    LET input_str == Strip(line)
        num == ParseInt(input_str)
    IN  IF input_str = << >> THEN DEFAULT_NUM_PARTICIPANTS
        ELSE IF num = NoneVal THEN DEFAULT_NUM_PARTICIPANTS
        ELSE IF num[1] < MIN_PARTICIPANTS THEN DEFAULT_NUM_PARTICIPANTS
        ELSE IF num[1] > MAX_PARTICIPANTS THEN MAX_PARTICIPANTS
        ELSE num[1]

(* get_char_limit *)
GetCharLimit(line) ==
    LET input_str == Strip(line)
        num == ParseInt(input_str)
    IN  IF input_str = << >> THEN DEFAULT_CHAR_LIMIT
        ELSE IF num = NoneVal THEN DEFAULT_CHAR_LIMIT
        ELSE num[1]

(* get_num_rounds *)
GetNumRounds(line) ==
    LET input_str == Strip(line)
        num == ParseInt(input_str)
    IN  IF input_str = << >> THEN DEFAULT_NUM_ROUNDS
        ELSE IF num = NoneVal THEN DEFAULT_NUM_ROUNDS
        ELSE IF num[1] < MIN_ROUNDS THEN MIN_ROUNDS
        ELSE num[1]

InputAlphabet == { "0", "1", "3", "-", "+", " ", "x" }

InputLines ==
    { [line |-> l] : l \in UNION { [1..n -> InputAlphabet] : n \in 0..MaxInputLen } }

InputInit == FunctionInit("input", InputLines)

(* main(), lines 50-52, the operator typing the same line at each prompt. *)
InputApply ==
    Apply("input", [num_participants |-> GetNumParticipants(fn_in.line),
                    char_limit |-> GetCharLimit(fn_in.line),
                    num_rounds |-> GetNumRounds(fn_in.line)])

InputNext == InputApply

SpecInput == InputInit /\ [][InputNext]_vars

-----------------------------------------------------------------------------
(* InputHandler._optimize_speaker_order *)

DisagreeWords ==
    { << "BAN", "DAE" >>, << "GEO", "BU" >>, << "BU", "JEONG" >>, << "MUN", "JE" >> }
AgreeWords ==
    { << "CHAN", "SEONG" >>, << "GEUNG", "JEONG" >>, << "DONG", "UI" >>, << "JI", "JI" >> }

(* Mutant of Disposition: the agree keywords are looked for first. *)
DispositionAgreeFirst(position) ==
    IF \E word \in AgreeWords : Contains(position, word) THEN "agree"
    ELSE IF \E word \in DisagreeWords : Contains(position, word) THEN "disagree"
    ELSE "neutral"

(* The if / elif / else of lines 297-305 (lower() leaves Hangul as it is). *)
Disposition(position) ==
    IF \E word \in DisagreeWords : Contains(position, word) THEN "disagree"
    ELSE IF \E word \in AgreeWords : Contains(position, word) THEN "agree"
    ELSE "neutral"

(* A stance after the loop of _optimize_speaker_order has labelled it. *)
Labelled(stance) ==
    [id |-> stance.id, position |-> stance.position,
     agree_or_disagree |-> Disposition(stance.position)]

(* _optimize_speaker_order: disagree + agree + neutral *)
OptimizeSpeakerOrder(stances) ==
    LET labelled == [k \in 1..Len(stances) |-> Labelled(stances[k])]
        group(d) == SelectSeq(labelled, LAMBDA st : st.agree_or_disagree = d)
    IN  group("disagree") \o group("agree") \o group("neutral")

(* The positions the operator types: one or two of these pieces; the       *)
(* piece "DAE BAN" holds no keyword but two of them in a row do.           *)
PositionPieces ==
    { << "BAN", "DAE" >>, << "CHAN", "SEONG" >>, << "x" >>, << "DAE", "BAN" >> }
Positions == PositionPieces \cup { a \o b : a \in PositionPieces, b \in PositionPieces }

StanceLists ==
    { [stances |-> [k \in 1..n |-> [id |-> k, position |-> ps[k]]]] :
        n \in 1..MaxStances, ps \in [1..MaxStances -> Positions] }

StancesInit == FunctionInit("_optimize_speaker_order", StanceLists)

StancesApply ==
    Apply("_optimize_speaker_order", OptimizeSpeakerOrder(fn_in.stances))

StancesNext == StancesApply

SpecStances == StancesInit /\ [][StancesNext]_vars

-----------------------------------------------------------------------------
(* _create_rounds on its own, for every num_rounds up to MaxPlanRounds.    *)

PlanInputs == { [n |-> n, L |-> L] : n \in 1..MaxPlanRounds, L \in 1..MaxBudget }

PlanInit == FunctionInit("_create_rounds", PlanInputs)

PlanApply == Apply("_create_rounds", CreateRounds(fn_in.n, fn_in.L))

PlanNext == PlanApply

SpecPlan == PlanInit /\ [][PlanNext]_vars

-----------------------------------------------------------------------------
(* AIDebateSystem.conduct_debate of src/ai_debate.py, the single-file      *)
(* predecessor of DebateEngine.  Its state is the record held in fn_out;   *)
(* the fields carry the names of its locals.  vectors is the list of the   *)
(* readiness vectors its checks have completed.                            *)

(* Line 649 *)
legacy_min_rounds == 2

(* Lines 626-642: the label of the round of index k out of n. *)
LegacyRoundName(k, n) ==
    IF k = 0 /\ n >= 2 THEN "OPENING"
    ELSE IF k = n - 1 THEN "FINAL_CONSENSUS"
    ELSE "DEBATE " \o ToString(k)

(* Lines 624-645: the schedule built inline from self.num_rounds. *)
LegacyRounds(n) == [k \in 1..n |-> [name |-> LegacyRoundName(k - 1, n)]]

(* Mutant of LegacySpeakerOrder: every round speaks in index order. *)
LegacySpeakerOrderByIndex(n, last) == [k \in 1..n |-> k - 1]

(* Lines 658-670: the speaking order of a round. *)
LegacySpeakerOrder(n, last) ==
    IF last # NoneVal
    THEN LET indices == [k \in 1..Len(last[1]) |-> k - 1]
             not_ready_indices == SelectSeq(indices, LAMBDA idx : ~last[1][idx + 1])
             ready_indices == SelectSeq(indices, LAMBDA idx : last[1][idx + 1])
         IN  not_ready_indices \o ready_indices
    ELSE [k \in 1..n |-> k - 1]

(* Lines 621, 647-650: the locals before the round loop. *)
LegacyStart ==
    [pc |-> "init", i |-> 0, actual_round_num |-> 0, speaker_order |-> << >>,
     pos |-> 0, conversation_history |-> << >>, last_ready_status |-> NoneVal,
     ready_status |-> << >>, debate_file |-> << >>, check_rounds |-> << >>,
     vectors |-> << >>]

debate_vars ==
    << config_vars, pc, i, actual_round_num, speaker_order, pos,
       conversation_history, last_ready_status, ready_status, debate_file,
       current_round, synth_log, unified_conclusion, conclusion_file, exc,
       check_rounds, ready_failed, turn_failed, faults, raw_in, parsed,
       synth_raw, prompt_log, in_flight, asked, check_prompts, synth_calls,
       fn_in >>

(* The predecessor runs first; the engine has not been started. *)
LegacyAt(label) == pc = "init" /\ fn_out.pc = label

(* Line 619: initialize_debate_file, whose open() may raise. *)
LegacyInitializeDebateFile ==
    /\ LegacyAt("init")
    /\ \E ok \in BOOLEAN :
          fn_out' = [fn_out EXCEPT !.pc = IF ok THEN "round" ELSE "aborted"]
    /\ UNCHANGED debate_vars

(* Lines 652-670: the head of one iteration of the round loop, or the      *)
(* loop's normal exit.                                                     *)
LegacyBeginRound ==
    /\ LegacyAt("round")
    /\ fn_out' =
          IF fn_out.i < Len(LegacyRounds(num_rounds))
          THEN [fn_out EXCEPT
                   !.actual_round_num = fn_out.i + 1,
                   !.speaker_order = LegacySpeakerOrder(num_participants,
                                                        fn_out.last_ready_status),
                   !.pos = 1,
                   !.pc = "turn"]
          ELSE [fn_out EXCEPT !.pc = "save"]
    /\ UNCHANGED debate_vars

(* Lines 691-698: the append to conversation_history and to the transcript *)
(* file of one turn; rec is the state after the turn when the write        *)
(* succeeds.                                                               *)
LegacyProduceTurn(speaker_idx, round_num, round_name, rec) ==
    \E write_ok \in BOOLEAN :
        LET turn == [speaker_idx |-> speaker_idx, round |-> round_num]
            line == [speaker_idx |-> speaker_idx, round_num |-> round_num,
                     round_name |-> round_name]
            said == Append(fn_out.conversation_history, turn)
        IN  fn_out' =
               IF write_ok
               THEN [rec EXCEPT !.conversation_history = said,
                                !.debate_file = Append(fn_out.debate_file, line)]
               ELSE [fn_out EXCEPT !.conversation_history = said,
                                   !.pc = "aborted"]

(* Lines 673-700, one iteration, and lines 702-713 after the last one. *)
LegacySpeakTurn ==
    /\ LegacyAt("turn")
    /\ LET round_info == LegacyRounds(num_rounds)[fn_out.i + 1]
           last == fn_out.pos >= Len(fn_out.speaker_order)
           rec == IF ~last
                  THEN [fn_out EXCEPT !.pos = fn_out.pos + 1]
                  ELSE IF round_info.name = "FINAL_CONSENSUS"
                  THEN [fn_out EXCEPT !.pc = "save"]
                  ELSE IF fn_out.actual_round_num >= legacy_min_rounds
                          /\ fn_out.i < Len(LegacyRounds(num_rounds)) - 1
                  THEN [fn_out EXCEPT
                           !.pc = "check",
                           !.ready_status = << >>,
                           !.check_rounds = Append(fn_out.check_rounds,
                                                   fn_out.actual_round_num)]
                  ELSE [fn_out EXCEPT !.pc = "round", !.i = fn_out.i + 1]
       IN  LegacyProduceTurn(fn_out.speaker_order[fn_out.pos],
                             fn_out.actual_round_num, round_info.name, rec)
    /\ UNCHANGED debate_vars

(* Lines 714-720, one iteration (one call of check_consensus_ready, whose  *)
(* answer is ready); after the last one, the branch of lines 725-735 or    *)
(* 770-775.                                                                *)
LegacyConsensusCall ==
    /\ LegacyAt("check")
    /\ \E ready \in BOOLEAN :
        LET status == Append(fn_out.ready_status, ready)
        IN  fn_out' =
               IF Len(status) < num_participants
               THEN [fn_out EXCEPT !.ready_status = status]
               ELSE IF \A k \in 1..Len(status) : status[k]
               THEN [fn_out EXCEPT
                        !.ready_status = status,
                        !.vectors = Append(fn_out.vectors, status),
                        !.actual_round_num = fn_out.actual_round_num + 1,
                        !.pos = 1,
                        !.pc = "final"]
               ELSE [fn_out EXCEPT
                        !.ready_status = status,
                        !.vectors = Append(fn_out.vectors, status),
                        !.last_ready_status = Some(status),
                        !.i = fn_out.i + 1,
                        !.pc = "round"]
    /\ UNCHANGED debate_vars

(* Lines 742-767, one iteration of the early closing round; after the last *)
(* one, the break of line 769.                                             *)
LegacyFinalTurn ==
    /\ LegacyAt("final")
    /\ LET last == fn_out.pos >= num_participants
           rec == IF last THEN [fn_out EXCEPT !.pc = "save"]
                  ELSE [fn_out EXCEPT !.pos = fn_out.pos + 1]
       IN  LegacyProduceTurn(fn_out.pos - 1, fn_out.actual_round_num,
                             "FINAL_CONSENSUS", rec)
    /\ UNCHANGED debate_vars

(* Lines 778-786: save_conclusion_file, whose open() may raise, and the    *)
(* return.                                                                 *)
LegacySaveConclusion ==
    /\ LegacyAt("save")
    /\ \E ok \in BOOLEAN :
          fn_out' = [fn_out EXCEPT !.pc = IF ok THEN "done" ELSE "aborted"]
    /\ UNCHANGED debate_vars

LegacyNext ==
    \/ LegacyInitializeDebateFile
    \/ LegacyBeginRound
    \/ LegacySpeakTurn
    \/ LegacyConsensusCall
    \/ LegacyFinalTurn
    \/ LegacySaveConclusion

(* DebateEngine.conduct_debate run after the predecessor has returned, on  *)
(* the same configuration, with each readiness answer equal to the one the *)
(* predecessor got at the same place: answer number k of check number c is *)
(* vectors[c][k].  A check the predecessor did not make has no answers.    *)
SameAnswers ==
    pc = "check" =>
        /\ Len(check_rounds) <= Len(fn_out.vectors)
        /\ ready_status'[Len(ready_status')]
              = fn_out.vectors[Len(check_rounds)][Len(ready_status')]

EngineReplay ==
    /\ fn_out.pc = "done"
    /\ Next
    /\ SameAnswers

LegacyInit ==
    /\ DebateInit
    /\ num_participants * num_rounds <= MaxLegacyTurns
    /\ fn_out = LegacyStart

CompareNext == LegacyNext \/ EngineReplay

SpecLegacy == LegacyInit /\ [][CompareNext]_vars

-----------------------------------------------------------------------------
(* Properties *)

N == num_participants
R == num_rounds

(* conduct_debate has returned the transcript. *)
Returned == pc = "done"

(* The number of the last round that has turns in the transcript. *)
LastRound ==
    IF conversation_history = << >> THEN 0
    ELSE conversation_history[Len(conversation_history)].round

TurnsOfRound(k) == SelectSeq(conversation_history, LAMBDA msg : msg.round = k)

SpeakersOf(turns) == { turns[k].speaker_idx : k \in 1..Len(turns) }

LastTurns(n) ==
    SubSeq(conversation_history, Len(conversation_history) - n + 1,
           Len(conversation_history))

(* The consensus check last run is finished and every answer was ready. *)
Unanimous == Len(ready_status) = N /\ AllReady(ready_status)

(* The transcript holds a turn of the early closing round: scheduled round *)
(* i+1 is the last round the schedule started.                             *)
EarlyTurns == \E k \in 1..Len(conversation_history) : conversation_history[k].round > i + 1

(* <<a, a+1, ..., b>>, empty when b < a *)
Range(a, b) == [j \in 1..(b - a + 1) |-> a + j - 1]

Min(a, b) == IF a <= b THEN a ELSE b

(* C1: once synthesize_conclusion has been called it has been called       *)
(* exactly once, its input is the last N turns of the transcript as it is   *)
(* from then on (so no turn follows the call), these are all the turns of   *)
(* the last round emitted, one per stance, placeholders included; a run     *)
(* that has returned has made the call.                                     *)
C1_SynthesisOnceOnLastRound ==
    /\ Returned => Len(synth_log) = 1
    /\ pc \in {"init", "round", "turn", "check", "final", "synth"} => synth_log = << >>
    /\ synth_log # << >> =>
          /\ Len(synth_log) = 1
          /\ Len(conversation_history) >= N
          /\ synth_log[1] = LastTurns(N)
          /\ synth_log[1] = TurnsOfRound(LastRound)
          /\ SpeakersOf(synth_log[1]) = 0..(N - 1)
          /\ LastRound = actual_round_num

(* C1 witness: a returned run whose early closing round holds a failure     *)
(* placeholder that was handed to synthesis.                                *)
C1_Witness ==
    /\ Returned
    /\ Unanimous
    /\ \E k \in 1..Len(synth_log[1]) : synth_log[1][k].content = ERROR_RESPONSE

(* C2: when conduct_debate has returned, every round number 1..LastRound    *)
(* has exactly N turns in the transcript, no other round number occurs, and *)
(* at least 2 rounds were completed.                                        *)
C2_NTurnsPerRound ==
    Returned =>
        /\ LastRound >= 2
        /\ \A k \in 1..Len(conversation_history) :
              conversation_history[k].round \in 1..LastRound
        /\ \A k \in 1..LastRound : Len(TurnsOfRound(k)) = N

(* C2 witness: a returned run with a failed agent call, a non-unanimous     *)
(* consensus check and a reordered round.                                   *)
C2_Witness ==
    /\ Returned
    /\ faults > 0
    /\ last_ready_status # NoneVal
    /\ speaker_order # [k \in 1..N |-> k - 1]

(* The records the writer holds for round number k. *)
FileRound(k) == SelectSeq(debate_file, LAMBDA rec : rec.round_num = k)

(* The writer holds the closing round complete: its last record is         *)
(* labelled FINAL_CONSENSUS and its round has N records.                   *)
ClosingDone ==
    /\ debate_file # << >>
    /\ debate_file[Len(debate_file)].round_name = "FINAL_CONSENSUS"
    /\ Len(FileRound(debate_file[Len(debate_file)].round_num)) = N

(* Record p of the writer is the N-th record of a round labelled           *)
(* FINAL_CONSENSUS: the closing round's last speaker.                      *)
ClosesAt(p) ==
    /\ debate_file[p].round_name = "FINAL_CONSENSUS"
    /\ Cardinality({ q \in 1..p : debate_file[q].round_num = debate_file[p].round_num }) = N

(* C3: once the turns are over (synthesis is next or done) the last round   *)
(* emitted is labelled FINAL_CONSENSUS in full and is the last round of the *)
(* transcript; and in every state the turn of the closing round's last      *)
(* speaker, once written, is the last turn of the writer and of the         *)
(* transcript.                                                              *)
C3_LastRoundIsClosing ==
    /\ pc \in {"synth", "save", "done"} =>
          /\ ClosingDone
          /\ debate_file[Len(debate_file)].round_num = LastRound
          /\ \A k \in 1..Len(debate_file) :
                debate_file[k].round_num = LastRound
                    => debate_file[k].round_name = "FINAL_CONSENSUS"
    /\ \A p \in 1..Len(debate_file) :
          ClosesAt(p) => /\ p = Len(debate_file)
                         /\ p = Len(conversation_history)

(* C3 witness: a returned run that ended with the scheduled closing round   *)
(* after a non-unanimous consensus check.                                   *)
C3_Witness ==
    /\ Returned
    /\ ClosingDone
    /\ LastRound = R
    /\ check_rounds # << >>

(* C4: when a consensus check after round k was unanimous, no further       *)
(* scheduled round runs: control is in the early closing round or past it,  *)
(* and once the turns are over the debate has k+1 rounds, N*(k+1) turns, a  *)
(* last round k+1 labelled FINAL_CONSENSUS, and at return exactly one       *)
(* synthesis call.                                                          *)
C4_UnanimousEndsNextRound ==
    Unanimous =>
        LET k == check_rounds[Len(check_rounds)]
        IN  /\ pc \in {"final", "synth", "save", "done", "aborted"}
            /\ i + 1 = k
            /\ LastRound <= k + 1
            /\ pc \in {"synth", "save", "done"} =>
                  /\ actual_round_num = k + 1
                  /\ LastRound = k + 1
                  /\ Len(conversation_history) = N * (k + 1)
                  /\ \A j \in 1..Len(debate_file) :
                        debate_file[j].round_name = "FINAL_CONSENSUS"
                            <=> debate_file[j].round_num = k + 1
            /\ Returned => Len(synth_log) = 1

(* C4 witness: a returned run that was unanimous after round 2 and ended    *)
(* with round 3 although more rounds were configured.                       *)
C4_Witness ==
    /\ Returned
    /\ Unanimous
    /\ check_rounds = << 2 >>
    /\ LastRound = 3
    /\ R > 3
    /\ Len(conversation_history) = 3 * N

(* C5: in every state the round numbers of the transcript never decrease    *)
(* in insertion order and no stance has two turns with the same round       *)
(* number.                                                                  *)
C5_RoundsMonotoneSpeakersUnique ==
    \A j, k \in 1..Len(conversation_history) :
        j < k =>
            /\ conversation_history[j].round <= conversation_history[k].round
            /\ conversation_history[j].round = conversation_history[k].round
                  => conversation_history[j].speaker_idx # conversation_history[k].speaker_idx

(* C5 witness: the middle of the early closing round that follows a round   *)
(* spoken in readiness order.                                               *)
C5_Witness ==
    /\ pc = "final"
    /\ pos > 1
    /\ last_ready_status # NoneVal
    /\ speaker_order # [k \in 1..N |-> k - 1]

(* C6: every turn produced from a failed agent call is in the transcript   *)
(* with the placeholder as its content; no agent error ever leaves          *)
(* conduct_debate; and a run with failed turns that has returned has N      *)
(* turns in every round up to its closing round.                            *)
C6_FailedTurnIsPlaceholder ==
    /\ \A p \in turn_failed :
          /\ p \in 1..Len(conversation_history)
          /\ conversation_history[p].content = ERROR_RESPONSE
    /\ exc \in {"none", "FileOperationError"}
    /\ (Returned /\ turn_failed # {}) =>
          /\ ClosingDone
          /\ \A k \in 1..LastRound : Len(TurnsOfRound(k)) = N

(* C6 witness: a returned run whose first turn failed and that still ran    *)
(* at least three rounds.                                                   *)
C6_Witness ==
    /\ Returned
    /\ 1 \in turn_failed
    /\ LastRound >= 3

(* C7 (the claim as stated): a writer failure while appending a turn does   *)
(* not abort the debate.                                                    *)
C7_WriterFailureDoesNotAbort ==
    (exc = "FileOperationError" /\ Len(conversation_history) > Len(debate_file))
        => pc # "aborted"

(* The agent's answer holds Y, E, S in a row, in either case. *)
ContainsYesAnyCase(s) ==
    \E k \in 1..(Len(s) - 2) :
        /\ s[k] \in {"Y", "y"}
        /\ s[k + 1] \in {"E", "e"}
        /\ s[k + 2] \in {"S", "s"}

(* C8 (the claim as stated): check_consensus_ready returns true exactly     *)
(* when the agent call succeeded and its answer contains YES in any case.   *)
C8_ReadyIffReplyContainsYes ==
    parsed # NoneVal =>
        (parsed[1] <=> (CallAi(raw_in).ok /\ ContainsYesAnyCase(raw_in.stdout)))

(* C9: a stance whose readiness call raised has the entry FALSE in the      *)
(* vector; a check with a failed call is not unanimous, and the early       *)
(* closing round is not entered or run after it.                            *)
C9_FailedReadinessIsNotReady ==
    /\ \A idx \in ready_failed :
          /\ idx < Len(ready_status)
          /\ ready_status[idx + 1] = FALSE
    /\ ready_failed # {} =>
          /\ ~Unanimous
          /\ pc # "final"
          /\ ~EarlyTurns

(* C9 witness: a finished check in which the only entry that is not ready   *)
(* comes from a failed call, and the debate goes on with the next round.    *)
C9_Witness ==
    /\ pc = "round"
    /\ Len(ready_status) = N
    /\ ready_failed # {}
    /\ \A idx \in 0..(N - 1) : idx \notin ready_failed => ready_status[idx + 1]
    /\ last_ready_status = Some(ready_status)

(* C10: the consensus checks run so far are exactly those after the rounds  *)
(* 2, 3, ... completed by the schedule, below the configured final round R  *)
(* and while the debate is undecided: none after round 1, none after round  *)
(* R, none after a unanimous check or the early closing round, and none     *)
(* left out.                                                                *)
C10_ChecksExactlyAfterMiddleRounds ==
    /\ pc \in {"init", "round", "turn"} => check_rounds = Range(2, Min(i, R - 1))
    /\ pc = "check" => (check_rounds = Range(2, i + 1) /\ 2 <= i + 1 /\ i + 1 < R)
    /\ pc \in {"final", "synth", "save", "done"} =>
          check_rounds = Range(2, Min(i + 1, R - 1))
    /\ Unanimous => check_rounds[Len(check_rounds)] = i + 1

(* C10 witness: a returned run of 4 configured rounds that checked after    *)
(* rounds 2 and 3 and ended with the scheduled final round.                 *)
C10_Witness ==
    /\ Returned
    /\ R = 4
    /\ check_rounds = << 2, 3 >>
    /\ LastRound = 4

(* C11: _determine_speaker_order, given a readiness vector of N stances,   *)
(* returns a permutation of 0..N-1 in which no ready stance precedes a     *)
(* not-ready one and stances of equal readiness are in ascending index     *)
(* order, so [F,T,F] gives [0,2,1]; given no vector it returns 0..N-1 in   *)
(* ascending order.                                                        *)
C11_NotReadyFirstAscending ==
    (pc = "_determine_speaker_order" /\ fn_out # NoneVal) =>
        LET n == fn_in.n
            order == fn_out[1]
        IN  /\ Len(order) = n
            /\ { order[k] : k \in 1..n } = 0..(n - 1)
            /\ IF fn_in.last = NoneVal
               THEN \A k \in 1..n : order[k] = k - 1
               ELSE LET ready == fn_in.last[1]
                    IN  \A p \in 1..n : \A q \in (p + 1)..n :
                           /\ ~(ready[order[p] + 1] /\ ~ready[order[q] + 1])
                           /\ ready[order[p] + 1] = ready[order[q] + 1]
                                 => order[p] < order[q]
            /\ fn_in.last = Some(<< FALSE, TRUE, FALSE >>) => order = << 0, 2, 1 >>

C11_Witness ==
    /\ pc = "_determine_speaker_order"
    /\ fn_in.last = Some(<< FALSE, TRUE, FALSE >>)
    /\ fn_out = Some(<< 0, 2, 1 >>)

(* get_ai_response has been applied; its first call answered n characters. *)
ResponseDone == pc = "get_ai_response" /\ fn_out # NoneVal
FirstAnswer == CallAi(fn_in.raw1)
FirstLen == Len(FirstAnswer.response)

(* C12: for every budget L > 0 and every first answer of n characters, the *)
(* expansion call is made exactly when n < 0.25 * L, that is when          *)
(* 4 * n < L, budgets that are no multiple of 4 included.                  *)
C12_ExpandsIffUnderQuarter ==
    (ResponseDone /\ FirstAnswer.ok) =>
        (fn_out[1].calls = 2 <=> 4 * FirstLen < fn_in.L)

(* C13: a turn makes at most two agent calls: the first one and, only      *)
(* after a first answer, at most one expansion call; when the expansion    *)
(* call succeeds its answer is the turn's content whatever its length.     *)
C13_AtMostOneExpansion ==
    ResponseDone =>
        LET res == fn_out[1]
            second == CallAi(fn_in.raw2)
        IN  /\ res.calls \in {1, 2}
            /\ res.calls = 2 => FirstAnswer.ok
            /\ (res.calls = 2 /\ second.ok) =>
                   /\ res.response = second.response
                   /\ ~res.failed
                   /\ res.raised = "none"

(* The expansion answered, still under the floor, and was accepted. *)
C13_Witness ==
    /\ ResponseDone
    /\ fn_out[1].calls = 2
    /\ ~fn_out[1].failed
    /\ fn_out[1].response = << "b" >>
    /\ 4 * Len(fn_out[1].response) < fn_in.L

(* C14: a first answer at or above the floor, over the budget included,    *)
(* causes no further agent call and is returned unchanged; with the budget *)
(* 500 an answer of 600 or of 140 characters causes no further call and    *)
(* one of 80 characters exactly one.                                       *)
C14_LongEnoughIsKept ==
    ResponseDone =>
        LET res == fn_out[1]
        IN  /\ (FirstAnswer.ok /\ 4 * FirstLen >= fn_in.L) =>
                   /\ res.calls = 1
                   /\ res.response = Strip(fn_in.raw1.stdout)
                   /\ ~res.failed
                   /\ res.raised = "none"
            /\ (fn_in.L = 500 /\ FirstLen \in {140, 600}) => res.calls = 1
            /\ (fn_in.L = 500 /\ FirstLen = 80) => res.calls = 2

C14_Witness ==
    /\ ResponseDone
    /\ fn_in.L = 500
    /\ FirstLen = 600
    /\ fn_out[1].calls = 1
    /\ Len(fn_out[1].response) = 600

(* The synthesis agent call has been made and has failed. *)
SynthesisFailed == synth_raw # NoneVal /\ ~CallAi(synth_raw[1]).ok

(* C15: when the synthesis agent call fails, synthesize_conclusion returns *)
(* the fixed placeholder text; the failure does not leave conduct_debate,  *)
(* which still calls save_conclusion_file, with the placeholder as the     *)
(* conclusion, and returns the transcript.                                 *)
C15_FailedSynthesisIsPlaceholder ==
    SynthesisFailed =>
        /\ unified_conclusion = Some(ERROR_CONCLUSION)
        /\ pc \in {"save", "done", "aborted"}
        /\ exc \notin {"AIModelNotFoundError", "AITimeoutError", "AIResponseError"}
        /\ pc \in {"done", "aborted"} =>
              /\ Len(conclusion_file) = 1
              /\ conclusion_file[1].unified_conclusion = ERROR_CONCLUSION
              /\ conclusion_file[1].proposals = synth_log[1]
        /\ pc = "aborted" => exc = "FileOperationError" /\ ~conclusion_file[1].written
        /\ Returned => conclusion_file[1].written /\ ClosingDone

C15_Witness ==
    /\ Returned
    /\ synth_raw = Some(TimeoutExpired)
    /\ Len(conclusion_file) = 1
    /\ conclusion_file[1].written
    /\ conclusion_file[1].unified_conclusion = ERROR_CONCLUSION

(* Record k of the transcript file is turn k of the transcript. *)
Written(k) ==
    /\ k <= Len(debate_file)
    /\ debate_file[k].speaker_idx = conversation_history[k].speaker_idx
    /\ debate_file[k].content = conversation_history[k].content
    /\ debate_file[k].round_num = conversation_history[k].round

(* C16: every turn is handed to the writer right after it is produced,     *)
(* before any later agent call, in transcript order: wherever a further    *)
(* agent call can start the file holds exactly the transcript's turns, in  *)
(* order, and only the turn whose write failed can be missing;             *)
(* save_conclusion_file is called once, after the last append.             *)
C16_WrittenAtOnceSavedOnce ==
    /\ Len(debate_file) <= Len(conversation_history)
    /\ \A k \in 1..Len(debate_file) : Written(k)
    /\ pc # "aborted" => Len(debate_file) = Len(conversation_history)
    /\ Len(debate_file) < Len(conversation_history) =>
          /\ Len(debate_file) = Len(conversation_history) - 1
          /\ exc = "FileOperationError"
          /\ conclusion_file = << >>
    /\ Len(conclusion_file) <= 1
    /\ conclusion_file # << >> =>
          /\ pc \in {"done", "aborted"}
          /\ ClosingDone
          /\ conclusion_file[1].proposals = LastTurns(N)
    /\ Returned => Len(conclusion_file) = 1

C16_Witness ==
    /\ Returned
    /\ Len(conversation_history) > 2 * N
    /\ \A k \in 1..Len(conversation_history) : Written(k)
    /\ Len(conclusion_file) = 1
    /\ conclusion_file[1].written

(* Entry j of the history in turn k's prompt is turn j of the transcript. *)
PromptShows(k, j) ==
    /\ prompt_log[k][j].content = conversation_history[j].content
    /\ prompt_log[k][j].label =
          IF conversation_history[j].speaker_idx = conversation_history[k].speaker_idx
          THEN "me" ELSE ToString(conversation_history[j].speaker_idx)

(* C17: the history the prompt builder is given for the k-th turn is       *)
(* exactly the first k-1 turns of the final transcript, in order.          *)
C17_PromptHistoryIsPrefix ==
    /\ Len(prompt_log) = Len(conversation_history)
    /\ \A k \in 1..Len(prompt_log) :
          /\ Len(prompt_log[k]) = k - 1
          /\ \A j \in 1..(k - 1) : PromptShows(k, j)

C17_Witness ==
    /\ Returned
    /\ Len(prompt_log) > 2 * N
    /\ Len(prompt_log[Len(prompt_log)]) = Len(conversation_history) - 1
    /\ PromptShows(Len(prompt_log), 1)

(* main() has exited after the operator's interrupt. *)
ExitedOnInterrupt == pc = "exit 0" /\ exc = "KeyboardInterrupt"

(* C18: the operator's interrupt takes effect only between turns: once an  *)
(* agent call for a turn has started, conduct_debate does not stop before  *)
(* that call has completed or timed out.                                   *)
C18_InterruptOnlyBetweenTurns ==
    exc = "KeyboardInterrupt" => in_flight # "turn"

(* C19: when the operator interrupts at any point, every turn of the       *)
(* in-memory transcript has been written to the transcript file by the     *)
(* time the program exits.                                                 *)
C19_InterruptFlushesTranscript ==
    ExitedOnInterrupt =>
        \A k \in 1..Len(conversation_history) : Written(k)

(* call_ai_with_retry has been applied. *)
RetryDone == pc = "call_ai_with_retry" /\ fn_out # NoneVal
AttemptOk(k) == CallAi(fn_in.raws[k]).ok
AttemptRetried(k) == CallAi(fn_in.raws[k]).exc \in {"AITimeoutError", "AIResponseError"}

(* C20: call_ai_with_retry calls the agent at most max_retries times (not  *)
(* at all when max_retries is below 1); it stops at the first attempt that *)
(* succeeds and returns that attempt's text.                               *)
C20_RetryCappedStopsAtSuccess ==
    RetryDone =>
        LET res == fn_out[1]
        IN  /\ res.calls >= 0
            /\ res.calls <= fn_in.max_retries \/ res.calls = 0
            /\ \A k \in 1..(res.calls - 1) : ~AttemptOk(k)
            /\ res.ok =>
                  /\ res.calls >= 1
                  /\ AttemptOk(res.calls)
                  /\ res.response = Strip(fn_in.raws[res.calls].stdout)
            /\ \A k \in 1..fn_in.max_retries :
                  (AttemptOk(k) /\ \A j \in 1..(k - 1) : AttemptRetried(j)) =>
                      res.ok /\ res.calls = k

(* A timeout, then an answer: two calls, the second answer returned. *)
C20_Witness ==
    /\ RetryDone
    /\ fn_in.max_retries = 3
    /\ fn_in.raws[1] = TimeoutExpired
    /\ fn_in.raws[2] = Completed(0, << "b", "\n" >>)
    /\ fn_out[1].ok
    /\ fn_out[1].calls = 2
    /\ fn_out[1].response = << "b" >>

AttemptNotFound(k) == CallAi(fn_in.raws[k]).exc = "AIModelNotFoundError"

(* C21: in call_ai_with_retry an AIModelNotFoundError of any attempt       *)
(* leaves the function at once as AIModelNotFoundError, and no further     *)
(* attempt is made after it, whatever max_retries is.                      *)
C21_NotFoundIsNotRetried ==
    RetryDone =>
        LET res == fn_out[1]
        IN  /\ \A k \in 1..fn_in.max_retries :
                  (AttemptNotFound(k) /\ \A j \in 1..(k - 1) : AttemptRetried(j)) =>
                      /\ ~res.ok
                      /\ res.exc = "AIModelNotFoundError"
                      /\ res.calls = k
            /\ \A k \in 1..(res.calls - 1) : ~AttemptNotFound(k)

(* A timeout, then the missing binary, with one attempt left unused. *)
C21_Witness ==
    /\ RetryDone
    /\ fn_in.max_retries = 3
    /\ fn_in.raws[1] = TimeoutExpired
    /\ fn_in.raws[2] = FileNotFound
    /\ fn_in.raws[3] = Completed(0, << "a" >>)
    /\ fn_out[1].exc = "AIModelNotFoundError"
    /\ fn_out[1].calls = 2

ModelsDone == pc = "initialize_models" /\ fn_out # NoneVal

(* C22: initialize_models either raises NoAvailableModelsError or returns  *)
(* with a non-empty map of available models, whether the cache was used,   *)
(* was stale or was bypassed; when no model is usable it raises.           *)
C22_RaisesOrNonEmpty ==
    ModelsDone =>
        LET res == fn_out[1]
        IN  /\ \/ res.raised = "NoAvailableModelsError"
               \/ res.raised = "none" /\ res.available_models # {}
            /\ (res.probed /\ fn_in.usable = {}) => res.raised = "NoAvailableModelsError"

InputDone == pc = "input" /\ fn_out # NoneVal

(* C23: for every line the operator types, the budget get_char_limit       *)
(* returns, which main() puts in DebateSetup.char_limit, is greater than 0.*)
C23_CharLimitPositive ==
    InputDone => fn_out[1].char_limit > 0

(* C24: for every line the operator types (empty, not a number, too small, *)
(* too large) get_num_participants returns a value in 2..10 and            *)
(* get_num_rounds a value of at least 2.                                   *)
C24_ParticipantsAndRoundsInRange ==
    InputDone =>
        /\ fn_out[1].num_participants \in 2..10
        /\ fn_out[1].num_rounds >= 2

(* The line "11": too many participants are cut to 10, 11 rounds are kept. *)
C24_Witness ==
    /\ InputDone
    /\ fn_in.line = << "1", "1" >>
    /\ fn_out[1].num_participants = 10
    /\ fn_out[1].num_rounds = 11

StancesDone == pc = "_optimize_speaker_order" /\ fn_out # NoneVal

(* The group the claim gives a position: disagree when a disagree keyword *)
(* occurs in it, else agree when an agree keyword does, else neutral.      *)
HasWord(position, words) ==
    \E word \in words : \E k \in 1..(Len(position) - 1) :
        << position[k], position[k + 1] >> = word
GroupRank(position) ==
    IF HasWord(position, DisagreeWords) THEN 0
    ELSE IF HasWord(position, AgreeWords) THEN 1 ELSE 2

(* C25: _optimize_speaker_order returns a permutation of the stances it is *)
(* given: every disagree stance, then every agree stance, then every       *)
(* neutral one, in input order inside each group; a position with a        *)
(* disagree and an agree keyword is disagree, one with neither is neutral. *)
C25_DisagreeAgreeNeutral ==
    StancesDone =>
        LET inp == fn_in.stances
            out == fn_out[1]
        IN  /\ Len(out) = Len(inp)
            /\ { out[k].id : k \in 1..Len(out) } = 1..Len(inp)
            /\ \A k \in 1..Len(out) : out[k].position = inp[out[k].id].position
            /\ \A p \in 1..Len(out) : \A q \in (p + 1)..Len(out) :
                  \/ GroupRank(out[p].position) < GroupRank(out[q].position)
                  \/ /\ GroupRank(out[p].position) = GroupRank(out[q].position)
                     /\ out[p].id < out[q].id

(* Neutral, agree, both keywords: the order is reversed. *)
C25_Witness ==
    /\ StancesDone
    /\ Len(fn_in.stances) = 3
    /\ fn_in.stances[1].position = << "x" >>
    /\ fn_in.stances[2].position = << "CHAN", "SEONG" >>
    /\ fn_in.stances[3].position = << "CHAN", "SEONG", "BAN", "DAE" >>
    /\ [k \in 1..3 |-> fn_out[1][k].id] = << 3, 2, 1 >>

(* order has every stance once, no ready stance of status before a         *)
(* not-ready one, and stances of equal readiness in ascending order.       *)
OrderedBy(order, status) ==
    /\ Len(order) = N
    /\ Len(status) = N
    /\ { order[k] : k \in 1..N } = 0..(N - 1)
    /\ \A p \in 1..N : \A q \in (p + 1)..N :
          /\ ~(status[order[p] + 1] /\ ~status[order[q] + 1])
          /\ status[order[p] + 1] = status[order[q] + 1] => order[p] < order[q]

(* C26: every scheduled round k >= 3 speaks in the order the policy gives  *)
(* for the readiness vector of the check after round k-1 alone: while such *)
(* a round runs, the last check made is the one after round k-1, and the   *)
(* order of the round, which its turns follow, is not-ready before ready   *)
(* by that check's vector, whatever earlier checks returned.               *)
C26_OrderFromLastCheckOnly ==
    (pc = "turn" /\ actual_round_num >= 3) =>
        /\ check_rounds # << >>
        /\ check_rounds[Len(check_rounds)] = actual_round_num - 1
        /\ OrderedBy(speaker_order, ready_status)
        /\ \A k \in 1..Len(TurnsOfRound(actual_round_num)) :
              TurnsOfRound(actual_round_num)[k].speaker_idx = speaker_order[k]

(* Round 3 spoke in the order 0, 1; the check after it makes round 4       *)
(* speak in the order 1, 0.                                                *)
C26_Witness ==
    /\ pc = "turn"
    /\ actual_round_num = 4
    /\ N = 2
    /\ ready_status = << TRUE, FALSE >>
    /\ speaker_order = << 1, 0 >>
    /\ TurnsOfRound(3)[1].speaker_idx = 0
    /\ Len(TurnsOfRound(4)) = 1

(* C27: rounds 1 and 2 speak in the index order 0..N-1, because no         *)
(* readiness vector exists before the first consensus check, which comes   *)
(* after round 2 at the earliest; reordering can first show in round 3.    *)
C27_FirstTwoRoundsInIndexOrder ==
    /\ \A k \in 1..Len(conversation_history) :
          conversation_history[k].round \in {1, 2} =>
              /\ conversation_history[k].speaker_idx = (k - 1) % N
              /\ conversation_history[k].round = ((k - 1) \div N) + 1
    /\ (pc = "turn" /\ actual_round_num <= 2) =>
          /\ last_ready_status = NoneVal
          /\ check_rounds = << >>
          /\ speaker_order = [k \in 1..N |-> k - 1]
    /\ \A k \in 1..Len(check_rounds) : check_rounds[k] >= 2
    /\ last_ready_status # NoneVal => check_rounds # << >>

(* Round 3 opens with another stance than stance 0. *)
C27_Witness ==
    /\ Len(conversation_history) > 2 * N
    /\ conversation_history[2 * N + 1].round = 3
    /\ conversation_history[2 * N + 1].speaker_idx # 0
    /\ \A k \in 1..(2 * N) : conversation_history[k].speaker_idx = (k - 1) % N

(* C28: with num_rounds = 2 the debate is round 1, the opening round, and  *)
(* round 2, the closing round: no exchange round is run and no readiness   *)
(* call is ever made.                                                      *)
C28_TwoRoundsOpeningClosing ==
    R = 2 =>
        /\ check_rounds = << >>
        /\ asked = << >>
        /\ ready_status = << >>
        /\ pc \notin {"check", "final"}
        /\ \A k \in 1..Len(debate_file) :
              \/ debate_file[k].round_num = 1 /\ debate_file[k].round_name = "OPENING"
              \/ debate_file[k].round_num = 2 /\ debate_file[k].round_name = "FINAL_CONSENSUS"
        /\ \A k \in 1..Len(conversation_history) :
              conversation_history[k].round = ((k - 1) \div N) + 1
        /\ Len(conversation_history) <= 2 * N
        /\ Returned => Len(conversation_history) = 2 * N

C28_Witness ==
    /\ Returned
    /\ R = 2
    /\ Len(debate_file) = 2 * N
    /\ debate_file[1].round_name = "OPENING"
    /\ debate_file[2 * N].round_name = "FINAL_CONSENSUS"

PlanDone == pc = "_create_rounds" /\ fn_out # NoneVal

(* C29: _create_rounds(R) gives exactly R round plans whose kind depends   *)
(* on the index and R alone: the last is the closing round, the first is   *)
(* the opening round exactly when R >= 2, every other one is an exchange   *)
(* round; so one round is closing, and for R = 1 the only round is.        *)
C29_PlanByIndexAndCount ==
    PlanDone =>
        LET rounds == fn_out[1]
            n == fn_in.n
        IN  /\ Len(rounds) = n
            /\ \A k \in 1..n :
                  /\ rounds[k].name = "FINAL_CONSENSUS" <=> k = n
                  /\ rounds[k].name = "OPENING" <=> (k = 1 /\ n >= 2)
                  /\ (k # 1 /\ k # n) => rounds[k].name = "DEBATE " \o ToString(k - 1)
            /\ rounds[n].name = "FINAL_CONSENSUS"
            /\ Cardinality({ k \in 1..n : rounds[k].name = "FINAL_CONSENSUS" }) = 1

C29_Witness ==
    /\ PlanDone
    /\ fn_in.n = 4
    /\ [k \in 1..4 |-> fn_out[1][k].name]
          = << "OPENING", "DEBATE 1", "DEBATE 2", "FINAL_CONSENSUS" >>

(* C30: every consensus check asks each of the N stances once, in the      *)
(* order 0..N-1, and goes on after a not-ready answer and after a failed   *)
(* call; the list it returns has N entries and entry i is stance i's.      *)
C30_EveryStanceAsked ==
    /\ Len(asked) = Len(ready_status)
    /\ asked = [k \in 1..Len(asked) |-> k - 1]
    /\ Len(ready_status) <= N
    /\ pc = "check" => Len(ready_status) < N
    /\ (pc # "check" /\ check_rounds # << >>) => Len(ready_status) = N
    /\ last_ready_status # NoneVal => Len(last_ready_status[1]) = N
    /\ \A idx \in ready_failed : idx + 1 <= Len(ready_status) /\ ~ready_status[idx + 1]

(* Stance 0 was not ready, stance 1 failed, stance 2 was still asked. *)
C30_Witness ==
    /\ pc = "round"
    /\ N = 3
    /\ asked = << 0, 1, 2 >>
    /\ ready_status = << FALSE, FALSE, TRUE >>
    /\ ready_failed = {1}

(* C31: a step of the consensus check (any call of check_consensus_ready,  *)
(* the last one with the branch it leads to included) changes neither the  *)
(* transcript, nor what the transcript writer has written, nor the         *)
(* writer's current round, nor the round number.                           *)
C31_CheckHasNoSideEffect ==
    [][pc = "check" =>
          UNCHANGED << conversation_history, debate_file, current_round,
                       actual_round_num >>]_vars

(* A check with a failed call is over; transcript and file hold the turns  *)
(* of the rounds spoken so far and nothing else.                           *)
C31_Witness ==
    /\ pc = "round"
    /\ Len(asked) = N
    /\ ready_failed # {}
    /\ actual_round_num = 2
    /\ Len(conversation_history) = N * 2
    /\ Len(debate_file) = N * 2
    /\ current_round = 2

(* The round whose end the running (or the last) consensus check follows. *)
CheckedRound == check_rounds[Len(check_rounds)]

(* C32: the k-th prompt of a consensus check, the one for stance k-1,      *)
(* shows exactly the turns of the round just completed that other stances  *)
(* spoke, in transcript order: N-1 turns, none by the asked stance, none   *)
(* of an earlier round.                                                    *)
C32_CheckPromptShowsLastRoundOfOthers ==
    /\ Len(check_prompts) = Len(asked)
    /\ \A k \in 1..Len(check_prompts) :
          /\ check_prompts[k]
                = SelectSeq(TurnsOfRound(CheckedRound),
                            LAMBDA msg : msg.speaker_idx # asked[k])
          /\ Len(check_prompts[k]) = N - 1
          /\ \A j \in 1..Len(check_prompts[k]) :
                /\ check_prompts[k][j].speaker_idx # asked[k]
                /\ check_prompts[k][j].round = CheckedRound

(* The check after round 3 of a three-party debate, whose round 3 spoke in *)
(* the order 1, 2, 0: the prompt for stance 1 shows stances 2 and 0.       *)
C32_Witness ==
    /\ N = 3
    /\ Len(check_rounds) = 2
    /\ speaker_order = << 1, 2, 0 >>
    /\ Len(check_prompts) >= 2
    /\ [j \in 1..2 |-> check_prompts[2][j].speaker_idx] = << 2, 0 >>
    /\ check_prompts[2][1].round = 3

C34_FailedExpansionDiscardsShortAnswer ==
    (/\ ResponseDone
     /\ FirstAnswer.ok
     /\ FirstLen < MinLimit(fn_in.L)
     /\ ~CallAi(fn_in.raw2).ok) =>
        LET res == fn_out[1]
        IN  /\ res.response = ERROR_RESPONSE
            /\ res.response # FirstAnswer.response
            /\ res.calls = 2
            /\ res.failed
            /\ res.raised = "none"

(* Budget 8, floor 2: the answer "a" is short, the expansion timed out. *)
C34_Witness ==
    /\ ResponseDone
    /\ fn_in.L = 8
    /\ FirstAnswer.ok
    /\ FirstAnswer.response = << "a" >>
    /\ fn_in.raw2 = TimeoutExpired
    /\ fn_out[1].response = ERROR_RESPONSE

(* The turns of the early closing round spoken so far. *)
EarlyClosingTurns ==
    SelectSeq(conversation_history, LAMBDA msg : msg.round > i + 1)

(* C35: the early closing round is spoken only after a unanimous check,    *)
(* and its speakers so far are 0, 1, 2, ... in this order, which is also   *)
(* the beginning of the order _determine_speaker_order gives for the       *)
(* unanimous vector, whatever order the round before it was spoken in.     *)
C35_ClosingRoundInIndexOrder ==
    LET spoken == [k \in 1..Len(EarlyClosingTurns) |->
                      EarlyClosingTurns[k].speaker_idx]
    IN  /\ EarlyTurns => Unanimous
        /\ Len(spoken) <= N
        /\ spoken = Range(0, Len(spoken) - 1)
        /\ EarlyTurns =>
              spoken = SubSeq(DetermineSpeakerOrder(N, Some(ready_status)),
                              1, Len(spoken))
        /\ (EarlyTurns /\ pc \in {"synth", "save", "done"}) =>
              spoken = DetermineSpeakerOrder(N, Some(ready_status))

(* Round 3 was spoken in the order 2, 0, 1 after a split check; the check  *)
(* after it was unanimous and the closing round spoke 0, 1, 2.             *)
C35_Witness ==
    /\ Returned
    /\ N = 3
    /\ Unanimous
    /\ speaker_order = << 2, 0, 1 >>
    /\ last_ready_status = Some(<< TRUE, TRUE, FALSE >>)
    /\ [k \in 1..3 |-> LastTurns(3)[k].speaker_idx] = << 0, 1, 2 >>
    /\ LastRound = 4

(* C36: in every state no turn of the transcript has a round number above *)
(* num_rounds, the transcript has at most N * num_rounds turns, and the    *)
(* round counter is at most num_rounds: the early closing round, which     *)
(* follows a check and so a round below num_rounds, stays within it.       *)
C36_NeverPastConfiguredRounds ==
    /\ \A k \in 1..Len(conversation_history) :
          conversation_history[k].round <= R
    /\ Len(conversation_history) <= N * R
    /\ actual_round_num <= R
    /\ pc = "final" => actual_round_num + 1 <= R

(* The check after round R-1 was unanimous: the early closing round is     *)
(* round R and fills the transcript to N * R turns.                        *)
C36_Witness ==
    /\ Returned
    /\ EarlyTurns
    /\ R = 3
    /\ LastRound = R
    /\ Len(conversation_history) = N * R

(* conduct_debate has returned after the closing round, one synthesis and *)
(* the conclusion file written.                                            *)
ReturnedInFull ==
    /\ Returned
    /\ ClosingDone
    /\ Len(synth_log) = 1
    /\ unified_conclusion # NoneVal
    /\ Len(conclusion_file) = 1
    /\ conclusion_file[1].written

(* C37: in every run in which no file operation fails (conduct_debate is   *)
(* never left with an exception) and every step due is eventually taken,   *)
(* conduct_debate eventually returns, after the closing round, the         *)
(* synthesis and the writing of the conclusion file, whatever the          *)
(* readiness answers and agent failures were.                              *)
C37_DebateTerminates ==
    <>(ReturnedInFull \/ exc # "none")

(* A run that returned in full after a failed turn and a split check. *)
C37_Witness ==
    /\ ReturnedInFull
    /\ exc = "none"
    /\ turn_failed # {}
    /\ last_ready_status # NoneVal
    /\ faults = MaxFaults

(* Every attempt call_ai_with_retry is allowed failed with a timeout or a  *)
(* response error.                                                         *)
AllAttemptsRetried == \A k \in 1..fn_in.max_retries : AttemptRetried(k)

(* C39: when each of the max_retries attempts fails with AITimeoutError or *)
(* AIResponseError, call_ai_with_retry makes exactly max_retries calls and *)
(* raises AIResponseError, also after a last attempt that timed out; with  *)
(* max_retries below 1 it raises AIResponseError without any call; and it  *)
(* returns a value only from an attempt that succeeded.                    *)
C39_ExhaustedRetriesRaise ==
    RetryDone =>
        LET res == fn_out[1]
        IN  /\ (AllAttemptsRetried /\ fn_in.max_retries >= 1) =>
                  /\ ~res.ok
                  /\ res.exc = "AIResponseError"
                  /\ res.calls = fn_in.max_retries
            /\ fn_in.max_retries <= 0 =>
                  /\ ~res.ok
                  /\ res.exc = "AIResponseError"
                  /\ res.calls = 0
            /\ res.ok => (res.calls >= 1 /\ AttemptOk(res.calls))
            /\ ~res.ok => res.response = << >>

(* Three attempts: a non-zero exit, then two timeouts. *)
C39_Witness ==
    /\ RetryDone
    /\ fn_in.max_retries = 3
    /\ fn_in.raws[1] = Completed(1, << >>)
    /\ fn_in.raws[2] = TimeoutExpired
    /\ fn_in.raws[3] = TimeoutExpired
    /\ fn_out[1].exc = "AIResponseError"
    /\ fn_out[1].calls = 3

(* The call of get_ai_response whose answer is returned: the expansion    *)
(* call when it was made, the first call otherwise.                        *)
AnsweringCall ==
    IF fn_out[1].calls = 2 THEN CallAi(fn_in.raw2) ELSE FirstAnswer

(* The output of the agent process is empty or white space only. *)
BlankOutput(raw) ==
    /\ raw.kind = "completed"
    /\ raw.returncode = 0
    /\ \A k \in 1..Len(raw.stdout) : IsSpace(raw.stdout[k])

(* C38: the content get_ai_response hands to the transcript for a turn is  *)
(* never empty: it is the fixed placeholder when a call failed, an empty   *)
(* or white-space-only output of the agent being such a failure, and       *)
(* otherwise the answering call's output without the white space at its    *)
(* ends, which has at least one character.                                 *)
C38_TurnContentNonEmpty ==
    ResponseDone =>
        LET res == fn_out[1]
        IN  /\ res.raised = "none"
            /\ res.response # << >>
            /\ res.failed => res.response = ERROR_RESPONSE
            /\ ~res.failed =>
                  /\ AnsweringCall.ok
                  /\ res.response = AnsweringCall.response
                  /\ ~IsSpace(res.response[1])
                  /\ ~IsSpace(res.response[Len(res.response)])
            /\ BlankOutput(fn_in.raw1) => res.failed
            /\ (res.calls = 2 /\ BlankOutput(fn_in.raw2)) => res.failed

(* A short first answer, then an expansion whose output is white space. *)
C38_Witness ==
    /\ ResponseDone
    /\ FirstAnswer.ok
    /\ fn_out[1].calls = 2
    /\ fn_in.raw2 = Completed(0, << " ", "\n" >>)
    /\ fn_out[1].failed
    /\ fn_out[1].response = ERROR_RESPONSE

(* Turn k of the engine is turn k of the predecessor. *)
SameTurn(k) ==
    /\ k <= Len(fn_out.conversation_history)
    /\ conversation_history[k].speaker_idx = fn_out.conversation_history[k].speaker_idx
    /\ conversation_history[k].round = fn_out.conversation_history[k].round

(* Record k of the engine's transcript file is record k of the             *)
(* predecessor's.                                                          *)
SameLine(k) ==
    /\ k <= Len(fn_out.debate_file)
    /\ debate_file[k].speaker_idx = fn_out.debate_file[k].speaker_idx
    /\ debate_file[k].round_num = fn_out.debate_file[k].round_num
    /\ debate_file[k].round_name = fn_out.debate_file[k].round_name

(* C40: for the same N and R and the same readiness answers, the engine's  *)
(* turns so far are the first turns of the predecessor, each with the same *)
(* speaker index, round number and round label, and the engine's checks so *)
(* far are the first checks of the predecessor, after the same rounds;     *)
(* when the engine returns, turns and checks are the predecessor's in      *)
(* full.                                                                   *)
C40_LegacyAndEngineAgree ==
    fn_out.pc = "done" =>
        /\ \A k \in 1..Len(conversation_history) : SameTurn(k)
        /\ \A k \in 1..Len(debate_file) : SameLine(k)
        /\ Len(check_rounds) <= Len(fn_out.check_rounds)
        /\ check_rounds = SubSeq(fn_out.check_rounds, 1, Len(check_rounds))
        /\ pc = "check" => Len(check_rounds) <= Len(fn_out.vectors)
        /\ Returned =>
              /\ Len(conversation_history) = Len(fn_out.conversation_history)
              /\ Len(debate_file) = Len(fn_out.debate_file)
              /\ check_rounds = fn_out.check_rounds
              /\ actual_round_num = fn_out.actual_round_num

(* Both returned after a split check, a reordered round 3 and a unanimous  *)
(* check that led to the early closing round 4.                            *)
C40_Witness ==
    /\ Returned
    /\ fn_out.pc = "done"
    /\ N = 2
    /\ R = 4
    /\ fn_out.vectors = << << TRUE, FALSE >>, << TRUE, TRUE >> >>
    /\ [k \in 1..Len(debate_file) |-> debate_file[k].speaker_idx]
          = << 0, 1, 0, 1, 1, 0, 0, 1 >>
    /\ fn_out.check_rounds = << 2, 3 >>
    /\ debate_file[8].round_name = "FINAL_CONSENSUS"

====
